---- MODULE Spec2Model ----
(***************************************************************************)
(* A model of PyAutoArray: the Mask of autoarray/mask/mask.py, the         *)
(* transformers of autoarray/operators/transformer.py, the interferometer  *)
(* datasets of autoarray/dataset/interferometer.py and the ACS instrument  *)
(* of autoarray/instruments/acs.py.                                        *)
(*                                                                         *)
(* Python values are records tagged with their type, numpy arrays are      *)
(* records of a dtype, a shape and the row-major data, and an object that  *)
(* owns array storage carries the identity of its buffer (buf).            *)
(***************************************************************************)
EXTENDS Integers, Sequences, FiniteSets, TLC

VARIABLES
    made,   \* the last Mask constructor call: its inputs and its outcome
    got,    \* the outcome of reading Mask.pixel_scale on the constructed mask
    restored, \* the constructed mask pickled and loaded again
    m,      \* a Mask the caller holds
    m0,     \* what m was when the caller obtained it
    d,      \* the latest object derived from m (or from an earlier d)
    dop,    \* the operation that returned d
    nops,   \* the number of operations applied to m and its derived objects
    trimmed, \* the last call that trims a padded array to the shape of an image
    tf,     \* the transformer built
    vis,    \* the last visibilities_from_image call and its outcome
    heap,   \* the Python objects alive, by address
    calls,  \* the invocations of a transformer class so far
    ifm,    \* the address of the interferometer dataset (0: none yet)
    mi,     \* the address of the masked interferometer dataset (0: none yet)
    snap,   \* what ifm and mi held, and mi's transformer, when constructed
    cp,     \* the latest dataset operation: what it was given and returned
    touched,\* whether the returned copy was written to since
    sim,    \* the simulator
    simcall,\* the last from_image call and its outcome
    acs,    \* the last call of an operation of the ACS instrument
    fs,     \* the file system: its directories and its .fits files
    io,     \* the call that reads or writes .fits files, and how far it got
    plt,    \* matplotlib.pyplot: the figures open and what was drawn
    pcall   \* the last call of an operation of the plotting objects

maskNewVars == <<made, got, restored>>
maskVars == <<m, m0, d, dop, nops, trimmed>>
transformerVars == <<tf, vis>>
datasetVars == <<ifm, mi, snap, cp, touched>>
heapVars == <<heap, calls>>
simVars == <<sim, simcall>>
acsVars == <<acs>>
fitsVars == <<fs, io>>
plotVars == <<plt, pcall>>
vars == <<made, got, restored, m, m0, d, dop, nops, trimmed, tf, vis, heap, calls, ifm, mi, snap, cp, touched, sim, simcall, acs, fs, io, plt, pcall>>

----------------------------------------------------------------------------
(* Bounds of the model *)

MaxPixels == 4      \* the largest number of pixels of a 2D array
MaxPixelsND == 2    \* the largest number of entries of a 1D or 3D array
MaxScale == 2       \* the largest pixel scale, sub_size, radius or factor
MaxOps == 2         \* the longest chain of derived-mask operations
MaxVis == 2         \* the largest number of visibilities (uv samples)

----------------------------------------------------------------------------
(* Python values *)

PyNone == [t |-> "None"]
PyFloat(x) == [t |-> "float", v |-> x]
PyInt(x) == [t |-> "int", v |-> x]
PyTuple(a, b) == [t |-> "tuple", pair |-> <<a, b>>]

Return(o) == [kind |-> "return", obj |-> o]
Value(x) == [kind |-> "value", v |-> x]
Raise(e) == [kind |-> "raise", exc |-> e]
NoCall == [kind |-> "none"]
NoObj == [cls |-> "none"]

----------------------------------------------------------------------------
(* numpy arrays *)

RECURSIVE Prod(_)
Prod(s) == IF s = <<>> THEN 1 ELSE Head(s) * Prod(Tail(s))

Shapes(rank, size) == {s \in [1..rank -> 1..size] : Prod(s) <= size}

Array(dtype, shape, data) == [dtype |-> dtype, shape |-> shape, data |-> data]

ArraysOf(dtype, shape, vals) ==
    {Array(dtype, shape, f) : f \in [1..Prod(shape) -> vals]}

\* a[y, x] of a 2D array, y and x counted from 0
At(a, y, x) == a.data[y * a.shape[2] + x + 1]

\* the 2D array of the shape whose [y, x] entry is f[<<y, x>>]
Array2D(dtype, shape, f) ==
    Array(dtype, shape,
          [i \in 1..(shape[1] * shape[2]) |->
              f[<<(i - 1) \div shape[2], (i - 1) % shape[2]>>]])

Pixels(shape) == (0..(shape[1] - 1)) \X (0..(shape[2] - 1))

np_full(shape, fill_value) ==
    Array("bool", shape, [i \in 1..Prod(shape) |-> fill_value])

\* ndarray.astype("bool"): a number is True unless it is 0
astype_bool(a) ==
    Array("bool", a.shape,
          [i \in DOMAIN a.data |->
              IF a.dtype = "bool" THEN a.data[i] ELSE a.data[i] # 0])

\* np.invert: logical not of a bool, bitwise not (-x - 1) of an integer
np_invert(a) ==
    Array(a.dtype, a.shape,
          [i \in DOMAIN a.data |->
              IF a.dtype = "bool" THEN ~a.data[i] ELSE 0 - a.data[i] - 1])

----------------------------------------------------------------------------
(* autoarray/mask/mask.py: class Mask(np.ndarray) *)

\* The storage numpy allocates for a new array: no live object's buffer.
\* Buffer 0 stands for the arrays no kept object owns (the caller's inputs,
\* numpy's temporaries), m is buffer 1.
NewBuf == IF m = NoObj THEN 1 ELSE 2

\* ndarray.astype("bool") leaving out the copy when the input is boolean
\* already, as astype(..., copy=False) does
ndarray_astype_nocopy(mask) ==
    [buf |-> IF mask.arr.dtype = "bool" THEN mask.buf ELSE NewBuf,
     arr |-> astype_bool(mask.arr)]

\* mask.astype("bool"): always a copy, in storage of its own
ndarray_astype(mask) == [buf |-> NewBuf, arr |-> astype_bool(mask.arr)]

\* Mask.__new__: the view of the boolean copy, with the metadata set on it
Mask_new(mask, pixel_scales, sub_size, origin) ==
    LET obj == ndarray_astype(mask) IN
    [cls |-> "Mask", buf |-> obj.buf, arr |-> obj.arr,
     sub_size |-> sub_size, pixel_scales |-> pixel_scales, origin |-> origin]

\* a caller's array or nested list, not yet a Mask
Input(t, a) == [t |-> t, buf |-> 0, arr |-> a]

\* Mask.manual
manual(mask, pixel_scales, sub_size, origin, invert) ==
    LET a1 == IF mask.t = "list" THEN astype_bool(mask.arr) ELSE mask.arr
        a2 == IF invert THEN np_invert(a1) ELSE a1
        ps == IF pixel_scales.t = "float"
              THEN PyTuple(pixel_scales.v, pixel_scales.v)
              ELSE pixel_scales
    IN  IF Len(a2.shape) # 2
        THEN Raise("MaskException")
        ELSE Return(Mask_new(Input("ndarray", a2), ps, sub_size, origin))

\* Mask.unmasked
unmasked(shape_2d, pixel_scales, sub_size, origin, invert) ==
    manual(Input("ndarray", np_full(shape_2d, FALSE)),
           pixel_scales, sub_size, origin, invert)

\* Mask.pixel_scale: indexing an int or None is a TypeError
pixel_scale(self) ==
    IF self.pixel_scales.t # "tuple"
    THEN Raise("TypeError")
    ELSE IF self.pixel_scales.pair[1] = self.pixel_scales.pair[2]
         THEN Value(self.pixel_scales.pair[1])
         ELSE Raise("MaskException")

\* the geometric constructors' and from_fits' opening lines:
\*   if type(pixel_scales) is not tuple:
\*       if type(pixel_scales) is float or int:     (always true)
\*           pixel_scales = (float(pixel_scales), float(pixel_scales))
\* float(None) is a TypeError
pixel_scales_pair(pixel_scales) ==
    IF pixel_scales.t = "tuple"
    THEN Value(pixel_scales)
    ELSE IF pixel_scales.t \in {"float", "int"}
         THEN Value(PyTuple(pixel_scales.v, pixel_scales.v))
         ELSE Raise("TypeError")

----------------------------------------------------------------------------
(* autoarray/util/mask_util.py, array_util.py, binning_util.py: the numeric *)
(* routines the Mask delegates to.  Coordinates are kept doubled, so that   *)
(* the centre of pixel (y, x) of a (H, W) array with scales (sy, sx) is     *)
(* ((H - 1 - 2y) * sy, (2x - (W - 1)) * sx) / 2.                            *)

\* four times the squared distance of pixel p from the centre
Dist2x4(shape, scales, centre, p) ==
    LET dy == (shape[1] - 1 - 2 * p[1]) * scales.pair[1] - 2 * centre[1]
        dx == (2 * p[2] - (shape[2] - 1)) * scales.pair[2] - 2 * centre[2]
    IN  dy * dy + dx * dx

\* the elliptical radius of pixel p, squared, times 4 * qn^2, for an axis
\* ratio qn / qd and a rotation phi of 0 or 90 degrees
Ell2x4(shape, scales, centre, ratio, phi, p) ==
    LET dy == (shape[1] - 1 - 2 * p[1]) * scales.pair[1] - 2 * centre[1]
        dx == (2 * p[2] - (shape[2] - 1)) * scales.pair[2] - 2 * centre[2]
        u == IF phi = 0 THEN dx ELSE dy
        w == IF phi = 0 THEN dy ELSE 0 - dx
    IN  ratio[1] * ratio[1] * u * u + ratio[2] * ratio[2] * w * w

mask_circular_from(shape_2d, pixel_scales, radius, centre) ==
    Array2D("bool", shape_2d,
        [p \in Pixels(shape_2d) |->
            ~(Dist2x4(shape_2d, pixel_scales, centre, p) <= 4 * radius * radius)])

mask_circular_annular_from(shape_2d, pixel_scales, inner_radius, outer_radius, centre) ==
    Array2D("bool", shape_2d,
        [p \in Pixels(shape_2d) |->
            LET r == Dist2x4(shape_2d, pixel_scales, centre, p) IN
            ~(4 * inner_radius * inner_radius <= r
              /\ r <= 4 * outer_radius * outer_radius)])

mask_circular_anti_annular_from(shape_2d, pixel_scales, inner_radius, outer_radius, outer_radius_2, centre) ==
    Array2D("bool", shape_2d,
        [p \in Pixels(shape_2d) |->
            LET r == Dist2x4(shape_2d, pixel_scales, centre, p) IN
            ~(r <= 4 * inner_radius * inner_radius
              \/ (4 * outer_radius * outer_radius < r
                  /\ r <= 4 * outer_radius_2 * outer_radius_2))])

mask_elliptical_from(shape_2d, pixel_scales, major_axis_radius, axis_ratio, phi, centre) ==
    Array2D("bool", shape_2d,
        [p \in Pixels(shape_2d) |->
            ~(Ell2x4(shape_2d, pixel_scales, centre, axis_ratio, phi, p)
                <= 4 * axis_ratio[1] * axis_ratio[1]
                     * major_axis_radius * major_axis_radius)])

mask_elliptical_annular_from(shape_2d, pixel_scales, inner_major_axis_radius, inner_axis_ratio, inner_phi, outer_major_axis_radius, outer_axis_ratio, outer_phi, centre) ==
    Array2D("bool", shape_2d,
        [p \in Pixels(shape_2d) |->
            ~(Ell2x4(shape_2d, pixel_scales, centre, outer_axis_ratio, outer_phi, p)
                <= 4 * outer_axis_ratio[1] * outer_axis_ratio[1]
                     * outer_major_axis_radius * outer_major_axis_radius
              /\ Ell2x4(shape_2d, pixel_scales, centre, inner_axis_ratio, inner_phi, p)
                   >= 4 * inner_axis_ratio[1] * inner_axis_ratio[1]
                        * inner_major_axis_radius * inner_major_axis_radius)])

Abs(i) == IF i < 0 THEN 0 - i ELSE i

\* unmasked (False) exactly within `buffer` pixels of a listed coordinate
mask_via_pixel_coordinates_from(shape_2d, pixel_coordinates, buffer) ==
    Array2D("bool", shape_2d,
        [p \in Pixels(shape_2d) |->
            ~(\E c \in pixel_coordinates :
                Abs(c[1] - p[1]) <= buffer /\ Abs(c[2] - p[2]) <= buffer)])

\* the array a FITS header-data-unit holds
numpy_array_2d_from_fits(file) == file.data

\* unmasks the pixels next to an unmasked pixel
buffed_mask_from(mask) ==
    Array2D("bool", mask.shape,
        [p \in Pixels(mask.shape) |->
            ~(\E q \in Pixels(mask.shape) :
                /\ Abs(q[1] - p[1]) <= 1
                /\ Abs(q[2] - p[2]) <= 1
                /\ ~At(mask, q[1], q[2]))])

\* every pixel repeated factor x factor times
Expanded(mask, factor) ==
    LET shape == <<mask.shape[1] * factor, mask.shape[2] * factor>> IN
    Array2D("bool", shape,
        [p \in Pixels(shape) |-> At(mask, p[1] \div factor, p[2] \div factor)])

\* the mask at sub-pixel resolution, from the sub-pixel index mapping
mask_via_shape_2d_and_mask_index_for_mask_1d_index_from(mask, sub_size) ==
    Expanded(mask, sub_size)

rescaled_mask_from(mask, rescale_factor) == Expanded(mask, rescale_factor)

\* a binned pixel is masked when most of the pixels binned into it are
bin_mask(mask, bin_up_factor) ==
    LET f == bin_up_factor
        shape == <<(mask.shape[1] + f - 1) \div f, (mask.shape[2] + f - 1) \div f>>
        Block(p) == {q \in Pixels(mask.shape) :
                        q[1] \div f = p[1] /\ q[2] \div f = p[2]}
    IN  Array2D("bool", shape,
            [p \in Pixels(shape) |->
                2 * Cardinality({q \in Block(p) : At(mask, q[1], q[2])})
                    > Cardinality(Block(p))])

\* pads with zeros (False) or crops, about the centre
resized_array_2d_from_array_2d(array_2d, resized_shape) ==
    LET oy == (resized_shape[1] - array_2d.shape[1]) \div 2
        ox == (resized_shape[2] - array_2d.shape[2]) \div 2
    IN  Array2D(array_2d.dtype, resized_shape,
            [p \in Pixels(resized_shape) |->
                IF <<p[1] - oy, p[2] - ox>> \in Pixels(array_2d.shape)
                THEN At(array_2d, p[1] - oy, p[2] - ox)
                ELSE IF array_2d.dtype = "bool" THEN FALSE ELSE 0])

----------------------------------------------------------------------------
(* autoarray/mask/mask.py: the constructors *)

circular(shape_2d, radius, pixel_scales, sub_size, origin, centre, invert) ==
    LET ps == pixel_scales_pair(pixel_scales) IN
    IF ps.kind = "raise" THEN ps
    ELSE manual(Input("ndarray",
                      mask_circular_from(shape_2d, ps.v, radius, centre)),
                ps.v, sub_size, origin, invert)

circular_annular(shape_2d, inner_radius, outer_radius, pixel_scales, sub_size, origin, centre, invert) ==
    LET ps == pixel_scales_pair(pixel_scales) IN
    IF ps.kind = "raise" THEN ps
    ELSE manual(Input("ndarray",
                      mask_circular_annular_from(shape_2d, ps.v, inner_radius,
                                                 outer_radius, centre)),
                ps.v, sub_size, origin, invert)

circular_anti_annular(shape_2d, inner_radius, outer_radius, outer_radius_2, pixel_scales, sub_size, origin, centre, invert) ==
    LET ps == pixel_scales_pair(pixel_scales) IN
    IF ps.kind = "raise" THEN ps
    ELSE manual(Input("ndarray",
                      mask_circular_anti_annular_from(shape_2d, ps.v,
                          inner_radius, outer_radius, outer_radius_2, centre)),
                ps.v, sub_size, origin, invert)

elliptical(shape_2d, major_axis_radius, axis_ratio, phi, pixel_scales, sub_size, origin, centre, invert) ==
    LET ps == pixel_scales_pair(pixel_scales) IN
    IF ps.kind = "raise" THEN ps
    ELSE manual(Input("ndarray",
                      mask_elliptical_from(shape_2d, ps.v, major_axis_radius,
                                           axis_ratio, phi, centre)),
                ps.v, sub_size, origin, invert)

elliptical_annular(shape_2d, inner_major_axis_radius, inner_axis_ratio, inner_phi, outer_major_axis_radius, outer_axis_ratio, outer_phi, pixel_scales, sub_size, origin, centre, invert) ==
    LET ps == pixel_scales_pair(pixel_scales) IN
    IF ps.kind = "raise" THEN ps
    ELSE manual(Input("ndarray",
                      mask_elliptical_annular_from(shape_2d, ps.v,
                          inner_major_axis_radius, inner_axis_ratio, inner_phi,
                          outer_major_axis_radius, outer_axis_ratio, outer_phi,
                          centre)),
                ps.v, sub_size, origin, invert)

from_pixel_coordinates(shape_2d, pixel_coordinates, pixel_scales, sub_size, origin, buffer, invert) ==
    manual(Input("ndarray",
                 mask_via_pixel_coordinates_from(shape_2d, pixel_coordinates,
                                                 buffer)),
           pixel_scales, sub_size, origin, invert)

----------------------------------------------------------------------------
(* autoarray/mask/mask.py: the derived masks *)

sub_mask(self) ==
    LET obj == ndarray_astype(Input("ndarray",
                   mask_via_shape_2d_and_mask_index_for_mask_1d_index_from(
                       self.arr, self.sub_size)))
    IN  [cls |-> "ndarray", buf |-> obj.buf, arr |-> obj.arr]

mask_sub_1(self) == Mask_new(self, self.pixel_scales, 1, self.origin)

edge_buffed_mask(self) ==
    Mask_new(ndarray_astype(Input("ndarray", buffed_mask_from(self.arr))),
             self.pixel_scales, self.sub_size, self.origin)

rescaled_mask_from_rescale_factor(self, rescale_factor) ==
    Mask_new(Input("ndarray", rescaled_mask_from(self.arr, rescale_factor)),
             self.pixel_scales, self.sub_size, self.origin)

mask_new_sub_size_from_mask(self, mask, sub_size) ==
    Mask_new(mask, self.pixel_scales, sub_size, self.origin)

binned_pixel_scales_from_bin_up_factor(self, bin_up_factor) ==
    IF self.pixel_scales # PyNone
    THEN PyTuple(self.pixel_scales.pair[1] * bin_up_factor,
                 self.pixel_scales.pair[2] * bin_up_factor)
    ELSE PyNone

binned_mask_from_bin_up_factor(self, bin_up_factor) ==
    Mask_new(Input("ndarray", bin_mask(self.arr, bin_up_factor)),
             binned_pixel_scales_from_bin_up_factor(self, bin_up_factor),
             self.sub_size, self.origin)

resized_mask_from_new_shape(self, new_shape) ==
    Mask_new(ndarray_astype(Input("ndarray",
                 resized_array_2d_from_array_2d(self.arr, new_shape))),
             self.pixel_scales, self.sub_size, self.origin)

\* Mask.from_fits: the class is called on the loaded array as it is
from_fits(file, pixel_scales, sub_size, origin, resized_mask_shape) ==
    LET ps == pixel_scales_pair(pixel_scales) IN
    IF ps.kind = "raise" THEN ps
    ELSE LET mask == Mask_new(Input("ndarray", numpy_array_2d_from_fits(file)),
                              ps.v, sub_size, origin)
         IN  IF resized_mask_shape # PyNone
             THEN Return(resized_mask_from_new_shape(mask, resized_mask_shape.pair))
             ELSE Return(mask)

----------------------------------------------------------------------------
(* The inputs drawn *)

Scales == 1..MaxScale
Radii == 0..MaxScale
SubSizes == 1..MaxScale
Origins == {<<0, 0>>, <<1, 2>>}
Centres == {<<0, 0>>, <<1, 0>>}
AxisRatios == {<<1, 1>>, <<1, 2>>}     \* 1 and 1/2, as numerator and denominator
Phis == {0, 90}
Shapes2D == Shapes(2, MaxPixels)
ShapesND == Shapes(1, MaxPixelsND) \cup Shapes(3, MaxPixelsND)

PixelScalesGiven ==
    {PyFloat(s) : s \in Scales} \cup {PyInt(s) : s \in Scales}
    \cup {PyTuple(s[1], s[2]) : s \in Scales \X Scales}
PixelScalesIn == {PyNone} \cup PixelScalesGiven

ArraysIn(dtype, vals) ==
    UNION {ArraysOf(dtype, shape, vals) : shape \in Shapes2D \cup ShapesND}
MaskInputs ==
    {Input(t, a) : t \in {"list", "ndarray"},
                   a \in ArraysIn("bool", BOOLEAN) \cup ArraysIn("int", 0..1)}
FitsFiles == {[data |-> a] : a \in ArraysIn("float", 0..1)}

Call(op, ndim, pixel_scales, out) ==
    [kind |-> "call", op |-> op, ndim |-> ndim, pixel_scales |-> pixel_scales,
     out |-> out]

----------------------------------------------------------------------------
(* The constructors, called by a caller that holds no mask yet *)

Manual ==
    /\ made = NoCall
    /\ \E mask \in MaskInputs, ps \in PixelScalesIn, sub_size \in SubSizes,
          origin \in Origins, invert \in BOOLEAN :
          made' = Call("manual", Len(mask.arr.shape), ps,
                       manual(mask, ps, sub_size, origin, invert))
    /\ UNCHANGED <<fitsVars, plotVars, got, restored, maskVars, transformerVars, heapVars, datasetVars, simVars, acsVars>>

Unmasked ==
    /\ made = NoCall
    /\ \E shape \in Shapes2D \cup ShapesND, ps \in PixelScalesIn,
          sub_size \in SubSizes, origin \in Origins, invert \in BOOLEAN :
          made' = Call("unmasked", Len(shape), ps,
                       unmasked(shape, ps, sub_size, origin, invert))
    /\ UNCHANGED <<fitsVars, plotVars, got, restored, maskVars, transformerVars, heapVars, datasetVars, simVars, acsVars>>

Circular ==
    /\ made = NoCall
    /\ \E shape \in Shapes2D, radius \in Radii, ps \in PixelScalesGiven,
          sub_size \in SubSizes, origin \in Origins, centre \in Centres,
          invert \in BOOLEAN :
          made' = Call("circular", Len(shape), ps,
                       circular(shape, radius, ps, sub_size, origin, centre,
                                invert))
    /\ UNCHANGED <<fitsVars, plotVars, got, restored, maskVars, transformerVars, heapVars, datasetVars, simVars, acsVars>>

CircularAnnular ==
    /\ made = NoCall
    /\ \E shape \in Shapes2D, inner \in Radii, outer \in Radii,
          ps \in PixelScalesGiven, sub_size \in SubSizes, origin \in Origins,
          centre \in Centres, invert \in BOOLEAN :
          made' = Call("circular_annular", Len(shape), ps,
                       circular_annular(shape, inner, outer, ps, sub_size,
                                        origin, centre, invert))
    /\ UNCHANGED <<fitsVars, plotVars, got, restored, maskVars, transformerVars, heapVars, datasetVars, simVars, acsVars>>

CircularAntiAnnular ==
    /\ made = NoCall
    /\ \E shape \in Shapes2D, inner \in Radii, outer \in Radii,
          outer_2 \in Radii, ps \in PixelScalesGiven, sub_size \in SubSizes,
          origin \in Origins, centre \in Centres, invert \in BOOLEAN :
          made' = Call("circular_anti_annular", Len(shape), ps,
                       circular_anti_annular(shape, inner, outer, outer_2, ps,
                                             sub_size, origin, centre, invert))
    /\ UNCHANGED <<fitsVars, plotVars, got, restored, maskVars, transformerVars, heapVars, datasetVars, simVars, acsVars>>

Elliptical ==
    /\ made = NoCall
    /\ \E shape \in Shapes2D, radius \in Radii, ratio \in AxisRatios,
          phi \in Phis, ps \in PixelScalesGiven, sub_size \in SubSizes,
          origin \in Origins, centre \in Centres, invert \in BOOLEAN :
          made' = Call("elliptical", Len(shape), ps,
                       elliptical(shape, radius, ratio, phi, ps, sub_size,
                                  origin, centre, invert))
    /\ UNCHANGED <<fitsVars, plotVars, got, restored, maskVars, transformerVars, heapVars, datasetVars, simVars, acsVars>>

EllipticalAnnular ==
    /\ made = NoCall
    /\ \E shape \in Shapes2D, inner \in Radii, inner_ratio \in AxisRatios,
          inner_phi \in Phis, outer \in Radii, outer_ratio \in AxisRatios,
          outer_phi \in Phis, ps \in PixelScalesGiven, sub_size \in SubSizes,
          origin \in Origins, centre \in Centres, invert \in BOOLEAN :
          made' = Call("elliptical_annular", Len(shape), ps,
                       elliptical_annular(shape, inner, inner_ratio, inner_phi,
                                          outer, outer_ratio, outer_phi, ps,
                                          sub_size, origin, centre, invert))
    /\ UNCHANGED <<fitsVars, plotVars, got, restored, maskVars, transformerVars, heapVars, datasetVars, simVars, acsVars>>

FromPixelCoordinates ==
    /\ made = NoCall
    /\ \E shape \in Shapes2D, ps \in PixelScalesIn, sub_size \in SubSizes,
          origin \in Origins, buffer \in 0..1, invert \in BOOLEAN :
       \E coords \in SUBSET Pixels(shape) :
          made' = Call("from_pixel_coordinates", Len(shape), ps,
                       from_pixel_coordinates(shape, coords, ps, sub_size,
                                              origin, buffer, invert))
    /\ UNCHANGED <<fitsVars, plotVars, got, restored, maskVars, transformerVars, heapVars, datasetVars, simVars, acsVars>>

\* The resize routine is a routine of 2D arrays: a resized shape is given only
\* with a file that holds a 2D array.
FromFits ==
    /\ made = NoCall
    /\ \E file \in FitsFiles, ps \in PixelScalesGiven, sub_size \in SubSizes,
          origin \in Origins :
       \E resized \in {PyNone} \cup
               (IF Len(file.data.shape) = 2
                THEN {PyTuple(s[1], s[2]) : s \in Shapes2D} ELSE {}) :
          made' = Call("from_fits", Len(file.data.shape), ps,
                       from_fits(file, ps, sub_size, origin, resized))
    /\ UNCHANGED <<fitsVars, plotVars, got, restored, maskVars, transformerVars, heapVars, datasetVars, simVars, acsVars>>

\* reading mask.pixel_scale on the mask a constructor returned
PixelScale ==
    /\ made # NoCall
    /\ made.out.kind = "return"
    /\ got = NoCall
    /\ got' = pixel_scale(made.out.obj)
    /\ UNCHANGED <<fitsVars, plotVars, made, restored, maskVars, transformerVars, heapVars, datasetVars, simVars, acsVars>>

\* ------------------------------------------------------------------------
\* Pickling a Mask: __reduce__, __setstate__ and __array_finalize__
\* ------------------------------------------------------------------------

\* ndarray.tobytes of a boolean array and its reading back
tobytes(arr) == [i \in DOMAIN arr.data |-> IF arr.data[i] THEN 1 ELSE 0]

frombytes(rawdata) == [i \in DOMAIN rawdata |-> rawdata[i] # 0]

\* ndarray.__reduce__: the function that rebuilds, its arguments, and the
\* state (version, shape, dtype, is_fortran, rawdata)
ndarray___reduce__(self) ==
    <<"_reconstruct", <<self.cls, <<0>>, "b">>,
      <<1, self.arr.shape, self.arr.dtype, FALSE, tobytes(self.arr)>>>>

\* ndarray.__setstate__: shape, dtype and data of the state, in storage of
\* the array's own
ndarray___setstate__(self, state) ==
    [self EXCEPT !.buf = 3,
                 !.arr = Array(state[3], state[2], frombytes(state[5]))]

\* Mask.__array_finalize__: the attributes of the new object; not_a_mask
\* stands for an obj that is no Mask (None, a plain ndarray)
Mask___array_finalize__(self, obj) ==
    IF obj.cls = "Mask"
    THEN [self EXCEPT !.sub_size = obj.sub_size,
                      !.pixel_scales = obj.pixel_scales,
                      !.origin = obj.origin]
    ELSE [self EXCEPT !.sub_size = 1, !.origin = <<0, 0>>,
                      !.pixel_scales = PyNone]

\* self.__dict__ of a Mask
Mask___dict__(self) ==
    [sub_size |-> self.sub_size, pixel_scales |-> self.pixel_scales,
     origin |-> self.origin]

\* Mask.__reduce__
Mask___reduce__(self) ==
    LET pickled_state == ndarray___reduce__(self)
        class_dict == Mask___dict__(self)
        new_state == Append(pickled_state[3], class_dict)
    IN  <<pickled_state[1], pickled_state[2], new_state>>

\* Mask.__setstate__ leaving the dictionary of the state where it is
Mask___setstate___array_only(self, state) ==
    ndarray___setstate__(self, SubSeq(state, 1, Len(state) - 1))

\* Mask.__setstate__
Mask___setstate__(self, state) ==
    LET class_dict == state[Len(state)]
        set == [key \in DOMAIN self |->
                   IF key \in DOMAIN class_dict THEN class_dict[key] ELSE self[key]]
    IN  ndarray___setstate__(set, SubSeq(state, 1, Len(state) - 1))

\* numpy's _reconstruct(cls, (0,), "b"): an empty array of the class, which
\* __array_finalize__ sees with obj None
reconstruct(args) ==
    Mask___array_finalize__(
        [cls |-> args[1], buf |-> 3, arr |-> Array("int", args[2], <<>>),
         sub_size |-> 0, pixel_scales |-> PyNone, origin |-> <<0, 0>>],
        NoObj)

\* pickle.loads(pickle.dumps(mask)), which is also what copy.deepcopy does
pickle_round_trip(self) ==
    LET reduced == Mask___reduce__(self)
    IN  Mask___setstate__(reconstruct(reduced[2]), reduced[3])

Pickle ==
    /\ made # NoCall
    /\ made.out.kind = "return"
    /\ restored = NoCall
    /\ restored' = Return(pickle_round_trip(made.out.obj))
    /\ UNCHANGED <<fitsVars, plotVars, made, got, maskVars, transformerVars, heapVars, datasetVars, simVars, acsVars>>

InitMaskNew ==
    /\ made = NoCall
    /\ got = NoCall /\ restored = NoCall
    /\ m = NoObj /\ m0 = NoObj /\ d = NoObj /\ dop = "none" /\ nops = 0 /\ trimmed = NoCall
    /\ tf = NoObj /\ vis = NoCall
    /\ heap = <<>> /\ calls = <<>>
    /\ ifm = 0 /\ mi = 0 /\ snap = NoObj /\ cp = NoCall /\ touched = FALSE
    /\ sim = 0 /\ simcall = NoCall
    /\ acs = NoCall
    /\ fs = NoObj /\ io = NoCall
    /\ plt = NoObj /\ pcall = NoCall

NextMaskNew ==
    \/ Manual
    \/ Unmasked
    \/ Circular
    \/ CircularAnnular
    \/ CircularAntiAnnular
    \/ Elliptical
    \/ EllipticalAnnular
    \/ FromPixelCoordinates
    \/ FromFits
    \/ PixelScale
    \/ Pickle

SpecMaskNew == InitMaskNew /\ [][NextMaskNew]_vars

----------------------------------------------------------------------------
(* A caller that holds a mask m, derives masks from it and from the masks   *)
(* derived, and writes into the derived arrays (ndarray item assignment).   *)

\* the metadata m is made with: the defaults, and a value other than the
\* default for each of pixel_scales, sub_size and origin
MaskMetas == {<<PyNone, 1, <<0, 0>>>>, <<PyTuple(1, 2), 2, <<1, 2>>>>}

Obtain ==
    /\ m = NoObj
    /\ \E shape \in Shapes2D : \E a \in ArraysOf("bool", shape, BOOLEAN) :
       \E meta \in MaskMetas :
          /\ m' = manual(Input("ndarray", a), meta[1], meta[2], meta[3],
                         FALSE).obj
          /\ m0' = m'
    /\ UNCHANGED <<fitsVars, plotVars, d, dop, nops, trimmed, maskNewVars, transformerVars, heapVars, datasetVars, simVars, acsVars>>

Held == {o \in {m, d} : o # NoObj}
Receivers == {o \in Held : o.cls = "Mask" /\ nops < MaxOps}

Derived(op, obj) ==
    /\ d' = obj
    /\ dop' = op
    /\ nops' = nops + 1
    /\ UNCHANGED <<fitsVars, plotVars, m, m0, trimmed, maskNewVars, transformerVars, heapVars, datasetVars, simVars, acsVars>>

SubMask ==
    \E self \in Receivers :
        /\ Prod(self.arr.shape) * self.sub_size * self.sub_size <= MaxPixels
        /\ Derived("sub_mask", sub_mask(self))

MaskSub1 ==
    \E self \in Receivers : Derived("mask_sub_1", mask_sub_1(self))

EdgeBuffedMask ==
    \E self \in Receivers : Derived("edge_buffed_mask", edge_buffed_mask(self))

RescaledMask ==
    \E self \in Receivers, rescale_factor \in Scales :
        /\ Prod(self.arr.shape) * rescale_factor * rescale_factor <= MaxPixels
        /\ Derived("rescaled_mask_from_rescale_factor",
                   rescaled_mask_from_rescale_factor(self, rescale_factor))

MaskNewSubSize ==
    \E self \in Receivers, mask \in Held, sub_size \in SubSizes :
        Derived("mask_new_sub_size_from_mask",
                mask_new_sub_size_from_mask(self, mask, sub_size))

BinnedMask ==
    \E self \in Receivers, bin_up_factor \in Scales :
        Derived("binned_mask_from_bin_up_factor",
                binned_mask_from_bin_up_factor(self, bin_up_factor))

ResizedMask ==
    \E self \in Receivers, new_shape \in Shapes2D :
        Derived("resized_mask_from_new_shape",
                resized_mask_from_new_shape(self, new_shape))

\* d[i] = value, written into d's buffer: every object on that buffer sees it
Written(o, buf, i, value) ==
    IF o # NoObj /\ o.buf = buf
    THEN [o EXCEPT !.arr.data[i] = value]
    ELSE o

SetItem ==
    /\ d # NoObj
    /\ nops < MaxOps
    /\ \E i \in DOMAIN d.arr.data, value \in BOOLEAN :
          /\ d.arr.data[i] # value
          /\ d' = Written(d, d.buf, i, value)
          /\ m' = Written(m, d.buf, i, value)
    /\ nops' = nops + 1
    /\ UNCHANGED <<fitsVars, plotVars, m0, dop, trimmed, maskNewVars, transformerVars, heapVars, datasetVars, simVars, acsVars>>

InitMask ==
    /\ made = NoCall
    /\ got = NoCall /\ restored = NoCall
    /\ m = NoObj /\ m0 = NoObj /\ d = NoObj /\ dop = "none" /\ nops = 0 /\ trimmed = NoCall
    /\ tf = NoObj /\ vis = NoCall
    /\ heap = <<>> /\ calls = <<>>
    /\ ifm = 0 /\ mi = 0 /\ snap = NoObj /\ cp = NoCall /\ touched = FALSE
    /\ sim = 0 /\ simcall = NoCall
    /\ acs = NoCall
    /\ fs = NoObj /\ io = NoCall
    /\ plt = NoObj /\ pcall = NoCall

NextMask ==
    \/ Obtain
    \/ SubMask
    \/ MaskSub1
    \/ EdgeBuffedMask
    \/ RescaledMask
    \/ MaskNewSubSize
    \/ BinnedMask
    \/ ResizedMask
    \/ SetItem

SpecMask == InitMask /\ [][NextMask]_vars

----------------------------------------------------------------------------
(* The claims about the Mask *)

DerivedOps ==
    {"sub_mask", "mask_sub_1", "edge_buffed_mask",
     "rescaled_mask_from_rescale_factor", "mask_new_sub_size_from_mask",
     "binned_mask_from_bin_up_factor", "resized_mask_from_new_shape"}

\* m is what it was, and the derived object is in storage of its own
Untouched == m = m0 /\ (d # NoObj => d.buf # m.buf)

(* C1, as claimed: over any sequence of the derived-mask operations, m's    *)
(* pattern, pixel_scales, sub_size and origin stay what they were, and      *)
(* every result is a new Mask that shares no storage with m.                *)
C1_EveryResultANewMask ==
    Untouched /\ (d # NoObj => d.cls = "Mask")

(* C1, amended: m stays what it was and every result is a new array that    *)
(* shares no storage with m; the result is a Mask for every operation but   *)
(* sub_mask, which returns a plain boolean array without the mask metadata. *)
C1_MaskNeverMutated ==
    /\ Untouched
    /\ d # NoObj =>
          /\ dop \in DerivedOps
          /\ d.arr.dtype = "bool"
          /\ IF dop = "sub_mask"
             THEN d.cls = "ndarray" /\ DOMAIN d = {"cls", "buf", "arr"}
             ELSE d.cls = "Mask"

\* two operations in a row: a mask resized from a derived mask of another
\* sub_size, m carrying pixel scales and an origin of its own
C1_Witness ==
    /\ nops = 2
    /\ dop = "resized_mask_from_new_shape"
    /\ d.cls = "Mask"
    /\ d.sub_size # m.sub_size
    /\ d.arr.shape # m.arr.shape
    /\ m.pixel_scales # PyNone
    /\ m.origin # <<0, 0>>

(* C2: every constructor call either returned a Mask of exactly two         *)
(* dimensions or raised MaskException, and Mask.manual raised it for every  *)
(* input that is not two-dimensional.                                       *)
C2_TwoDimensionsOrMaskException ==
    made # NoCall =>
        /\ \/ made.out = Raise("MaskException")
           \/ /\ made.out.kind = "return"
              /\ made.out.obj.cls = "Mask"
              /\ Len(made.out.obj.arr.shape) = 2
        /\ (made.op = "manual" /\ made.ndim # 2)
              => made.out = Raise("MaskException")

(* C3: a scalar pixel_scales s, float or integer, given to Mask.manual or   *)
(* Mask.unmasked, is stored as the pair (s, s), and mask.pixel_scale        *)
(* returns s.                                                               *)
C3_ScalarPixelScalesBroadcast ==
    (/\ made # NoCall
     /\ made.op \in {"manual", "unmasked"}
     /\ made.pixel_scales.t \in {"float", "int"}
     /\ made.out.kind = "return")
    => /\ made.out.obj.pixel_scales
            = PyTuple(made.pixel_scales.v, made.pixel_scales.v)
       /\ pixel_scale(made.out.obj) = Value(made.pixel_scales.v)
       /\ got # NoCall => got = Value(made.pixel_scales.v)

----------------------------------------------------------------------------
(* autoarray/util/transformer_util.py and the structures the transformers   *)
(* receive.  Phases are counted in quarter turns, so that every cosine and  *)
(* sine is 0, 1 or -1: the grid holds integer (y, x) positions and a        *)
(* visibility (u, v) turns the pixel at (y, x) by u * x + v * y quarters.   *)

Cos4(q) == CASE q % 4 = 0 -> 1 [] q % 4 = 2 -> 0 - 1 [] OTHER -> 0
Sin4(q) == CASE q % 4 = 1 -> 1 [] q % 4 = 3 -> 0 - 1 [] OTHER -> 0

RECURSIVE Sum(_)
Sum(s) == IF s = <<>> THEN 0 ELSE Head(s) + Sum(Tail(s))

Quarters(uv, yx) == uv[1] * yx[2] + uv[2] * yx[1]

preload_real_transforms(grid_radians, uv_wavelengths) ==
    [k \in DOMAIN uv_wavelengths |->
        [j \in DOMAIN grid_radians |->
            Cos4(Quarters(uv_wavelengths[k], grid_radians[j]))]]

preload_imag_transforms(grid_radians, uv_wavelengths) ==
    [k \in DOMAIN uv_wavelengths |->
        [j \in DOMAIN grid_radians |->
            Sin4(Quarters(uv_wavelengths[k], grid_radians[j]))]]

real_visibilities_from_image_via_preload_jit(image_1d, preloaded_reals) ==
    [k \in DOMAIN preloaded_reals |->
        Sum([j \in DOMAIN image_1d |-> image_1d[j] * preloaded_reals[k][j]])]

imag_visibilities_from_image_via_preload_jit(image_1d, preloaded_imags) ==
    [k \in DOMAIN preloaded_imags |->
        0 - Sum([j \in DOMAIN image_1d |-> image_1d[j] * preloaded_imags[k][j]])]

real_visibilities_jit(image_1d, grid_radians, uv_wavelengths) ==
    [k \in DOMAIN uv_wavelengths |->
        Sum([j \in DOMAIN image_1d |->
                image_1d[j] * Cos4(Quarters(uv_wavelengths[k], grid_radians[j]))])]

imag_visibilities_jit(image_1d, grid_radians, uv_wavelengths) ==
    [k \in DOMAIN uv_wavelengths |->
        0 - Sum([j \in DOMAIN image_1d |->
                    image_1d[j] * Sin4(Quarters(uv_wavelengths[k], grid_radians[j]))])]

\* vis.Visibilities(visibilities_1d=np.stack((real, imag), axis=-1))
Visibilities(real, imag) ==
    [cls |-> "Visibilities",
     data |-> [k \in DOMAIN real |-> <<real[k], imag[k]>>]]

\* the (y, x) centres of the pixels of a uniform grid, row by row from the
\* top, in half pixels about the centre of the grid
GridPositions(shape_2d) ==
    [i \in 1..(shape_2d[1] * shape_2d[2]) |->
        <<shape_2d[1] - 1 - 2 * ((i - 1) \div shape_2d[2]),
          2 * ((i - 1) % shape_2d[2]) - (shape_2d[2] - 1)>>]

\* a Grid structure: its binned 1D positions and what else the code reads
Grid(shape_2d, pixel_scales) ==
    [cls |-> "Grid", shape_2d |-> shape_2d, pixel_scales |-> pixel_scales,
     shape_1d |-> shape_2d[1] * shape_2d[2],
     in_1d_binned |-> GridPositions(shape_2d)]

\* an Array structure of a whole image: stored as the 2D image or as its 1D
\* vector, in_1d_binned is the 1D vector either way
ArrayStructure(arr, store_in_1d) ==
    [cls |-> "Array",
     shape |-> IF store_in_1d THEN <<Prod(arr.shape)>> ELSE arr.shape,
     shape_2d |-> arr.shape,
     data |-> arr.data,
     in_1d_binned |-> arr.data]

\* a plain numpy array as an image: it has no in_1d_binned
PlainImage(arr) == [cls |-> "ndarray", shape |-> arr.shape, data |-> arr.data]

----------------------------------------------------------------------------
(* autoarray/operators/transformer.py *)

\* uv_wavelengths.astype("float")
astype_float(uv_wavelengths) ==
    [dtype |-> "float", data |-> uv_wavelengths.data]

\* Transformer.__init__: the direct Fourier transform
Transformer_init(uv_wavelengths, grid_radians, preload_transform) ==
    LET uv == astype_float(uv_wavelengths)
        base == [cls |-> "Transformer",
                 uv_wavelengths |-> uv,
                 grid_radians |-> grid_radians.in_1d_binned,
                 total_visibilities |-> Len(uv_wavelengths.data),
                 total_image_pixels |-> grid_radians.shape_1d,
                 preload_transform |-> preload_transform]
    IN  IF preload_transform
        THEN base @@
             [preload_real_transforms |->
                  preload_real_transforms(grid_radians.in_1d_binned, uv.data),
              preload_imag_transforms |->
                  preload_imag_transforms(grid_radians.in_1d_binned, uv.data)]
        ELSE base

\* Transformer.real_visibilities_from_image
real_visibilities_from_image(self, image) ==
    IF self.preload_transform
    THEN real_visibilities_from_image_via_preload_jit(
             image.in_1d_binned, self.preload_real_transforms)
    ELSE real_visibilities_jit(
             image.in_1d_binned, self.grid_radians, self.uv_wavelengths.data)

\* Transformer.imag_visibilities_from_image
imag_visibilities_from_image(self, image) ==
    IF self.preload_transform
    THEN imag_visibilities_from_image_via_preload_jit(
             image.in_1d_binned, self.preload_imag_transforms)
    ELSE imag_visibilities_jit(
             image.in_1d_binned, self.grid_radians, self.uv_wavelengths.data)

\* Transformer.visibilities_from_image: no test of the image's shape; an
\* image without in_1d_binned (a plain ndarray) is an AttributeError
Transformer_visibilities_from_image(self, image) ==
    IF "in_1d_binned" \notin DOMAIN image
    THEN Raise("AttributeError")
    ELSE Return(Visibilities(real_visibilities_from_image(self, image),
                             imag_visibilities_from_image(self, image)))

\* image[::-1, :] of a 2D image: the rows from the bottom up
FlippedRows(image) ==
    LET h == image.shape[1]
        w == image.shape[2]
    IN  [i \in 1..(h * w) |->
            image.data[(h - 1 - ((i - 1) \div w)) * w + ((i - 1) % w) + 1]]

\* the (y, x) centres the library transforms place the rows of the flipped
\* image at: from the bottom up
RowsUpPositions(shape_2d) ==
    [i \in 1..(shape_2d[1] * shape_2d[2]) |->
        <<2 * ((i - 1) \div shape_2d[2]) - (shape_2d[1] - 1),
          2 * ((i - 1) % shape_2d[2]) - (shape_2d[2] - 1)>>]

\* what np.fft.fft2 with the interpolation, and NUFFT_cpu.forward, evaluate
\* once the half-pixel shift is applied: the transform of the flipped image
\* at the uv samples (the interpolation and gridding errors left out)
forward(flipped, shape_2d, uv) ==
    Visibilities(real_visibilities_jit(flipped, RowsUpPositions(shape_2d), uv),
                 imag_visibilities_jit(flipped, RowsUpPositions(shape_2d), uv))

\* TransformerFFT.__init__
TransformerFFT_init(uv_wavelengths, grid) ==
    [cls |-> "TransformerFFT",
     uv_wavelengths |-> astype_float(uv_wavelengths),
     grid |-> grid,
     uv |-> astype_float(uv_wavelengths).data]

\* TransformerFFT.visibilities_from_image with the test of the image's
\* dimensions letting every image of two dimensions or more through
TransformerFFT_visibilities_2d_or_more(self, image) ==
    IF Len(image.shape) < 2
    THEN Raise("ArrayException")
    ELSE Return(forward(FlippedRows(image), image.shape, self.uv))

\* TransformerFFT.visibilities_from_image
TransformerFFT_visibilities_from_image(self, image) ==
    IF Len(image.shape) # 2
    THEN Raise("ArrayException")
    ELSE Return(forward(FlippedRows(image), image.shape, self.uv))

\* TransformerNUFFT.__init__: uv_wavelengths kept as given
TransformerNUFFT_init(uv_wavelengths, grid) ==
    [cls |-> "TransformerNUFFT",
     uv_wavelengths |-> uv_wavelengths,
     grid |-> grid]

\* TransformerNUFFT.visibilities_from_image
TransformerNUFFT_visibilities_from_image(self, image) ==
    IF Len(image.shape) # 2
    THEN Raise("ArrayException")
    ELSE Return(forward(FlippedRows(image), image.shape,
                        self.uv_wavelengths.data))

----------------------------------------------------------------------------
(* The transformers: one is built, then images are transformed with it *)

UVPairs == (0..1) \X (0..1)

UVWavelengths ==
    {[dtype |-> "int", data |-> uv] :
        uv \in UNION {[1..n -> UVPairs] : n \in 1..MaxVis}}

\* the images a caller hands to the transformer of a grid: Array structures
\* of the grid's shape, stored in 2D or in 1D, plain 2D arrays of that
\* shape, and plain arrays of one or three dimensions
ImagesOf(shape_2d) ==
    {ArrayStructure(a, b) : a \in ArraysOf("float", shape_2d, 0..1),
                            b \in BOOLEAN}
        \cup {PlainImage(a) : a \in ArraysOf("float", shape_2d, 0..1)}
        \cup {PlainImage(a) :
                 a \in UNION {ArraysOf("float", s, 0..1) : s \in ShapesND}}

VisCall(image, out) == [image |-> image, out |-> out]

NewTransformer ==
    /\ tf = NoObj
    /\ \E uv \in UVWavelengths, shape_2d \in Shapes2D, preload \in BOOLEAN :
          tf' = Transformer_init(uv, Grid(shape_2d, <<1, 1>>), preload)
    /\ UNCHANGED <<fitsVars, plotVars, vis, maskNewVars, maskVars, heapVars, datasetVars, simVars, acsVars>>

NewTransformerFFT ==
    /\ tf = NoObj
    /\ \E uv \in UVWavelengths, shape_2d \in Shapes2D :
          tf' = TransformerFFT_init(uv, Grid(shape_2d, <<1, 1>>))
    /\ UNCHANGED <<fitsVars, plotVars, vis, maskNewVars, maskVars, heapVars, datasetVars, simVars, acsVars>>

NewTransformerNUFFT ==
    /\ tf = NoObj
    /\ \E uv \in UVWavelengths, shape_2d \in Shapes2D :
          tf' = TransformerNUFFT_init(uv, Grid(shape_2d, <<1, 1>>))
    /\ UNCHANGED <<fitsVars, plotVars, vis, maskNewVars, maskVars, heapVars, datasetVars, simVars, acsVars>>

DFTVisibilitiesFromImage ==
    /\ tf.cls = "Transformer"
    /\ vis = NoCall
    /\ \E image \in ImagesOf(<<1, tf.total_image_pixels>>)
                      \cup ImagesOf(<<tf.total_image_pixels, 1>>) :
          vis' = VisCall(image, Transformer_visibilities_from_image(tf, image))
    /\ UNCHANGED <<fitsVars, plotVars, tf, maskNewVars, maskVars, heapVars, datasetVars, simVars, acsVars>>

FFTVisibilitiesFromImage ==
    /\ tf.cls = "TransformerFFT"
    /\ vis = NoCall
    /\ \E image \in ImagesOf(tf.grid.shape_2d) :
          vis' = VisCall(image, TransformerFFT_visibilities_from_image(tf, image))
    /\ UNCHANGED <<fitsVars, plotVars, tf, maskNewVars, maskVars, heapVars, datasetVars, simVars, acsVars>>

NUFFTVisibilitiesFromImage ==
    /\ tf.cls = "TransformerNUFFT"
    /\ vis = NoCall
    /\ \E image \in ImagesOf(tf.grid.shape_2d) :
          vis' = VisCall(image,
                         TransformerNUFFT_visibilities_from_image(tf, image))
    /\ UNCHANGED <<fitsVars, plotVars, tf, maskNewVars, maskVars, heapVars, datasetVars, simVars, acsVars>>

InitTransformer ==
    /\ made = NoCall
    /\ got = NoCall /\ restored = NoCall
    /\ m = NoObj /\ m0 = NoObj /\ d = NoObj /\ dop = "none" /\ nops = 0 /\ trimmed = NoCall
    /\ tf = NoObj /\ vis = NoCall
    /\ heap = <<>> /\ calls = <<>>
    /\ ifm = 0 /\ mi = 0 /\ snap = NoObj /\ cp = NoCall /\ touched = FALSE
    /\ sim = 0 /\ simcall = NoCall
    /\ acs = NoCall
    /\ fs = NoObj /\ io = NoCall
    /\ plt = NoObj /\ pcall = NoCall

NextTransformer ==
    \/ NewTransformer
    \/ NewTransformerFFT
    \/ NewTransformerNUFFT
    \/ DFTVisibilitiesFromImage
    \/ FFTVisibilitiesFromImage
    \/ NUFFTVisibilitiesFromImage

SpecTransformer == InitTransformer /\ [][NextTransformer]_vars

----------------------------------------------------------------------------
(* The claims about the transformers *)

NotTwoDimensional(image) == Len(image.shape) # 2

----------------------------------------------------------------------------
(* Python objects.  The heap is the sequence of the objects alive, an       *)
(* address is an index of it, and an attribute holds a reference to an      *)
(* object or an immediate value (None, a number, a string, a class).        *)

Ref(a) == [ref |-> a]
IsRef(v) == "ref" \in DOMAIN v
PyStr(s) == [t |-> "str", v |-> s]
PyClass(c) == [t |-> "class", name |-> c]
PyNaN == [t |-> "nan"]

NoFields == [f \in {} |-> PyNone]

\* an object: its class, the data of an array (empty for any other object)
\* and its attributes
Object(cls, data, fields) == [cls |-> cls, data |-> data, fields |-> fields]

Attr(h, a, f) == h[a].fields[f]

Refs(o) == {o.fields[f].ref : f \in {g \in DOMAIN o.fields : IsRef(o.fields[g])}}

\* the objects an object reaches through its attributes, itself included
RECURSIVE Reach(_, _)
Reach(h, a) == {a} \cup UNION {Reach(h, b) : b \in Refs(h[a])}

\* what an object holds, the objects it refers to unfolded
RECURSIVE DeepValue(_, _)
DeepValue(h, a) ==
    [cls |-> h[a].cls,
     data |-> h[a].data,
     fields |-> [f \in DOMAIN h[a].fields |->
                    IF IsRef(h[a].fields[f])
                    THEN DeepValue(h, h[a].fields[f].ref)
                    ELSE h[a].fields[f]]]

\* object.__setattr__
setattr(h, a, f, v) == [h EXCEPT ![a].fields = (f :> v) @@ @]

\* copy.copy: a new object with the attributes of the old one, which go on
\* referring to the same objects
copy_copy(h, a) == [heap |-> Append(h, h[a]), ret |-> Len(h) + 1]

\* copy.deepcopy: every object reached is copied once (the memo), and the
\* references of the copies are to the copies
deepcopy(h, a) ==
    LET R == Reach(h, a)
        memo == [x \in R |-> Len(h) + Cardinality({y \in R : y <= x})]
        copied(o) ==
            Object(o.cls, o.data,
                   [f \in DOMAIN o.fields |->
                       IF IsRef(o.fields[f])
                       THEN Ref(memo[o.fields[f].ref])
                       ELSE o.fields[f]])
        nth(k) == CHOOSE x \in R : memo[x] = Len(h) + k
    IN  [heap |-> h \o [k \in 1..Cardinality(R) |-> copied(h[nth(k)])],
         ret |-> memo[a]]

----------------------------------------------------------------------------
(* autoarray/dataset/interferometer.py: the datasets.  An operation takes   *)
(* the world w (the heap and the transformer-class invocations so far) and  *)
(* gives the world after it and what it returned.                           *)

World(h, c) == [heap |-> h, calls |-> c]

\* abstract_dataset.AbstractDataset.__init__: the attributes it sets
AbstractDataset_init(data, noise_map, positions, name) ==
    [data |-> Ref(data), noise_map |-> Ref(noise_map),
     positions |-> positions, name |-> name]

\* AbstractInterferometer.__init__
AbstractInterferometer_init(w, visibilities, noise_map, uv_wavelengths, positions, name) ==
    [heap |-> Append(w.heap,
                  Object("Interferometer", <<>>,
                         AbstractDataset_init(visibilities, noise_map,
                                              positions, name)
                             @@ [uv_wavelengths |-> Ref(uv_wavelengths)])),
     calls |-> w.calls,
     ret |-> Len(w.heap) + 1]

\* AbstractInterferometer.visibilities
visibilities_of(h, self) == Attr(h, self, "data")

\* AbstractInterferometer.modified_visibilities_from_visibilities
modified_visibilities_from_visibilities(w, self, visibilities) ==
    LET interferometer == deepcopy(w.heap, self) IN
    [heap |-> setattr(interferometer.heap, interferometer.ret,
                      "data", Ref(visibilities)),
     calls |-> w.calls,
     ret |-> interferometer.ret]

\* AbstractMaskedInterferometerSettings.__init__, its other arguments left at
\* their defaults
AbstractMaskedInterferometerSettings_init(w, transformer_class) ==
    [heap |-> Append(w.heap,
                  Object("MaskedInterferometerSettings", <<>>,
                         [grid_class |-> PyClass("Grid"),
                          grid_inversion_class |-> PyClass("Grid"),
                          sub_steps |-> PyNone,
                          pixel_scales_interp |-> PyNone,
                          transformer_class |-> PyClass(transformer_class)])),
     calls |-> w.calls,
     ret |-> Len(w.heap) + 1]

\* transformer_class(uv_wavelengths=..., real_space_mask=...): the call is
\* recorded; the DFT and FFT classes keep uv_wavelengths.astype("float"), a
\* new array, the NUFFT class keeps the array given
transformer_class_call(w, transformer_class, uv_wavelengths, real_space_mask) ==
    LET copies == transformer_class # "TransformerNUFFT"
        h1 == IF copies
              THEN Append(w.heap, Object("ndarray", w.heap[uv_wavelengths].data,
                                         NoFields))
              ELSE w.heap
        uv == IF copies THEN Len(h1) ELSE uv_wavelengths
        self == Len(h1) + 1
    IN  [heap |-> Append(h1, Object(transformer_class, <<>>,
                                    [uv_wavelengths |-> Ref(uv),
                                     real_space_mask |-> Ref(real_space_mask)])),
         calls |-> Append(w.calls,
                          [transformer_class |-> transformer_class,
                           uv_wavelengths |-> uv_wavelengths,
                           real_space_mask |-> real_space_mask,
                           ret |-> self]),
         ret |-> self]

\* abstract_dataset.AbstractMaskedDataset.__init__: the attributes it sets
AbstractMaskedDataset_init(dataset, mask, settings) ==
    [dataset |-> Ref(dataset), mask |-> Ref(mask), settings |-> Ref(settings)]

\* AbstractMaskedInterferometer.__init__
AbstractMaskedInterferometer_init(w, interferometer, visibilities_mask, real_space_mask, settings) ==
    LET transformer ==
            transformer_class_call(
                w, Attr(w.heap, settings, "transformer_class").name,
                Attr(w.heap, interferometer, "uv_wavelengths").ref,
                real_space_mask)
    IN  [heap |-> Append(transformer.heap,
                      Object("MaskedInterferometer", <<>>,
                             AbstractMaskedDataset_init(interferometer,
                                                        real_space_mask, settings)
                                 @@ [transformer |-> Ref(transformer.ret),
                                     visibilities |->
                                         visibilities_of(w.heap, interferometer),
                                     noise_map |->
                                         Attr(w.heap, interferometer, "noise_map"),
                                     visibilities_mask |-> Ref(visibilities_mask)])),
         calls |-> transformer.calls,
         ret |-> Len(transformer.heap) + 1]

\* numpy's true division of one float by another
Divide(x, y) ==
    IF y = 0
    THEN [t |-> IF x = 0 THEN "nan" ELSE "inf"]
    ELSE [t |-> "ratio", num |-> x, den |-> y]

\* AbstractMaskedInterferometer.signal_to_noise_map: a new array
signal_to_noise_map(w, self) ==
    LET visibilities == w.heap[Attr(w.heap, self, "visibilities").ref].data
        noise_map == w.heap[Attr(w.heap, self, "noise_map").ref].data
    IN  [heap |-> Append(w.heap,
                      Object("Visibilities",
                             [k \in DOMAIN visibilities |->
                                 <<Divide(visibilities[k][1], noise_map[k][1]),
                                   Divide(visibilities[k][2], noise_map[k][2])>>],
                             NoFields)),
         calls |-> w.calls,
         ret |-> Len(w.heap) + 1]

\* AbstractMaskedInterferometer.modify_noise_map done by constructing the
\* dataset anew from the parts of this one
modify_noise_map_constructing(w, self, noise_map) ==
    LET masked_interferometer ==
            AbstractMaskedInterferometer_init(
                w, Attr(w.heap, self, "dataset").ref,
                Attr(w.heap, self, "visibilities_mask").ref,
                Attr(w.heap, self, "mask").ref,
                Attr(w.heap, self, "settings").ref)
    IN  [heap |-> setattr(masked_interferometer.heap, masked_interferometer.ret,
                          "noise_map", Ref(noise_map)),
         calls |-> masked_interferometer.calls,
         ret |-> masked_interferometer.ret]

\* AbstractMaskedInterferometer.modify_noise_map
modify_noise_map(w, self, noise_map) ==
    LET masked_interferometer == deepcopy(w.heap, self) IN
    [heap |-> setattr(masked_interferometer.heap, masked_interferometer.ret,
                      "noise_map", Ref(noise_map)),
     calls |-> w.calls,
     ret |-> masked_interferometer.ret]

----------------------------------------------------------------------------
(* The datasets: an interferometer dataset is made, a masked dataset is     *)
(* made of it, the operations are called on them, and the copy an           *)
(* operation returned is written to.                                        *)

TransformerClasses == {"TransformerDFT", "TransformerFFT", "TransformerNUFFT"}

\* the arrays a caller makes: n visibilities, noise values, uv samples
VisibilitiesIn(n) == {[k \in 1..n |-> <<k, 0 - k>>]}
NoiseMapsIn(n) == {[k \in 1..n |-> p] : p \in {<<1, 2>>, <<0, 2>>}}
UVIn(n) == {[k \in 1..n |-> <<k, 1>>]}

OpCount == IF cp = NoCall THEN 0 ELSE cp.n

DatasetCall(op, self, arg, ret) ==
    [kind |-> "call", op |-> op, self |-> self, arg |-> arg, ret |-> ret,
     n |-> OpCount + 1, prev |-> IF cp = NoCall THEN "none" ELSE cp.op]

NewInterferometer ==
    /\ ifm = 0
    /\ \E n \in 1..MaxVis :
       \E v \in VisibilitiesIn(n), nm \in NoiseMapsIn(n), uv \in UVIn(n) :
          LET h == heap \o <<Object("Visibilities", v, NoFields),
                             Object("Visibilities", nm, NoFields),
                             Object("ndarray", uv, NoFields)>>
              r == AbstractInterferometer_init(
                       World(h, calls), Len(heap) + 1, Len(heap) + 2,
                       Len(heap) + 3, PyNone, PyStr("name"))
          IN  /\ heap' = r.heap
              /\ calls' = r.calls
              /\ ifm' = r.ret
              /\ snap' = [cls |-> "snap", ifm |-> DeepValue(r.heap, r.ret),
                          mi |-> NoObj, transformer |-> 0]
    /\ UNCHANGED <<fitsVars, plotVars, mi, cp, touched, simVars, acsVars, maskNewVars, maskVars, transformerVars>>

NewMaskedInterferometer ==
    /\ ifm # 0
    /\ mi = 0
    /\ \E c \in TransformerClasses :
          LET n == Len(heap[visibilities_of(heap, ifm).ref].data)
              h == heap \o <<Object("bool", [k \in 1..n |-> FALSE], NoFields),
                             Object("Mask", <<FALSE, TRUE>>,
                                    [sub_size |-> PyInt(1),
                                     pixel_scales |-> PyTuple(1, 1)])>>
              s == AbstractMaskedInterferometerSettings_init(World(h, calls), c)
              r == AbstractMaskedInterferometer_init(
                       s, ifm, Len(heap) + 1, Len(heap) + 2, s.ret)
          IN  /\ heap' = r.heap
              /\ calls' = r.calls
              /\ mi' = r.ret
              /\ snap' = [snap EXCEPT
                             !.mi = DeepValue(r.heap, r.ret),
                             !.transformer = Attr(r.heap, r.ret, "transformer").ref]
    /\ UNCHANGED <<fitsVars, plotVars, ifm, cp, touched, simVars, acsVars, maskNewVars, maskVars, transformerVars>>

ModifiedVisibilities ==
    /\ ifm # 0
    /\ ~touched
    /\ OpCount < MaxOps
    /\ \E v \in {[k \in DOMAIN heap[visibilities_of(heap, ifm).ref].data |-> p] :
                    p \in {<<5, 5>>, <<6, 7>>}} :
          LET h == Append(heap, Object("Visibilities", v, NoFields))
              r == modified_visibilities_from_visibilities(
                       World(h, calls), ifm, Len(h))
          IN  /\ heap' = r.heap
              /\ calls' = r.calls
              /\ cp' = DatasetCall("modified_visibilities_from_visibilities",
                                   ifm, Len(h), r.ret)
    /\ UNCHANGED <<fitsVars, plotVars, ifm, mi, snap, touched, simVars, acsVars, maskNewVars, maskVars, transformerVars>>

SignalToNoiseMap ==
    /\ mi # 0
    /\ ~touched
    /\ OpCount < MaxOps
    /\ LET r == signal_to_noise_map(World(heap, calls), mi)
       IN  /\ heap' = r.heap
           /\ calls' = r.calls
           /\ cp' = DatasetCall("signal_to_noise_map", mi, 0, r.ret)
    /\ UNCHANGED <<fitsVars, plotVars, ifm, mi, snap, touched, simVars, acsVars, maskNewVars, maskVars, transformerVars>>

ModifyNoiseMap ==
    /\ mi # 0
    /\ ~touched
    /\ OpCount < MaxOps
    /\ \E nm \in {[k \in DOMAIN heap[Attr(heap, mi, "noise_map").ref].data |-> p] :
                     p \in {<<3, 3>>, <<4, 0>>}} :
          LET h == Append(heap, Object("Visibilities", nm, NoFields))
              r == modify_noise_map(World(h, calls), mi, Len(h))
          IN  /\ heap' = r.heap
              /\ calls' = r.calls
              /\ cp' = DatasetCall("modify_noise_map", mi, Len(h), r.ret)
    /\ UNCHANGED <<fitsVars, plotVars, ifm, mi, snap, touched, simVars, acsVars, maskNewVars, maskVars, transformerVars>>

CopyOps == {"modified_visibilities_from_visibilities", "modify_noise_map"}

\* array[i] = value, on an array the returned copy reaches
SetItemOfCopy ==
    /\ cp # NoCall
    /\ cp.op \in CopyOps
    /\ ~touched
    /\ \E a \in {b \in Reach(heap, cp.ret) : heap[b].data # <<>>} :
       \E i \in DOMAIN heap[a].data :
          heap' = [heap EXCEPT ![a].data[i] =
                      IF heap[a].cls \in {"bool", "Mask"} THEN ~@ ELSE <<9, 9>>]
    /\ touched' = TRUE
    /\ UNCHANGED <<fitsVars, plotVars, calls, ifm, mi, snap, cp, simVars, acsVars, maskNewVars, maskVars, transformerVars>>

\* copy.attribute = None, on the returned copy or on an object it reaches
SetAttrOfCopy ==
    /\ cp # NoCall
    /\ cp.op \in CopyOps
    /\ ~touched
    /\ \E a \in Reach(heap, cp.ret) :
       \E f \in DOMAIN heap[a].fields :
          heap' = setattr(heap, a, f, PyNone)
    /\ touched' = TRUE
    /\ UNCHANGED <<fitsVars, plotVars, calls, ifm, mi, snap, cp, simVars, acsVars, maskNewVars, maskVars, transformerVars>>

InitDataset ==
    /\ made = NoCall
    /\ got = NoCall /\ restored = NoCall
    /\ m = NoObj /\ m0 = NoObj /\ d = NoObj /\ dop = "none" /\ nops = 0 /\ trimmed = NoCall
    /\ tf = NoObj /\ vis = NoCall
    /\ heap = <<>> /\ calls = <<>>
    /\ ifm = 0 /\ mi = 0 /\ snap = NoObj /\ cp = NoCall /\ touched = FALSE
    /\ sim = 0 /\ simcall = NoCall
    /\ acs = NoCall
    /\ fs = NoObj /\ io = NoCall
    /\ plt = NoObj /\ pcall = NoCall

NextDataset ==
    \/ NewInterferometer
    \/ NewMaskedInterferometer
    \/ ModifiedVisibilities
    \/ SignalToNoiseMap
    \/ ModifyNoiseMap
    \/ SetItemOfCopy
    \/ SetAttrOfCopy

SpecDataset == InitDataset /\ [][NextDataset]_vars

----------------------------------------------------------------------------
(* The claims about the datasets *)

(* C5: constructing the masked interferometer dataset invokes               *)
(* settings.transformer_class exactly once, with the interferometer's       *)
(* uv_wavelengths and the real-space mask; over the later calls of          *)
(* signal_to_noise_map and modify_noise_map on the dataset the class is     *)
(* never invoked again, and the dataset's transformer attribute still       *)
(* refers to the transformer built at construction, which is as it was.     *)
C5_TransformerBuiltOnce ==
    IF mi = 0
    THEN calls = <<>>
    ELSE /\ Len(calls) = 1
         /\ calls[1].transformer_class
                = Attr(heap, Attr(heap, mi, "settings").ref,
                       "transformer_class").name
         /\ calls[1].uv_wavelengths = Attr(heap, ifm, "uv_wavelengths").ref
         /\ calls[1].real_space_mask = Attr(heap, mi, "mask").ref
         /\ calls[1].ret = snap.transformer
         /\ Attr(heap, mi, "transformer") = Ref(snap.transformer)
         /\ DeepValue(heap, snap.transformer) = snap.mi.fields.transformer

\* modify_noise_map called on the dataset after signal_to_noise_map
C5_Witness ==
    /\ mi # 0
    /\ cp # NoCall
    /\ cp.op = "modify_noise_map"
    /\ cp.self = mi
    /\ cp.n = 2
    /\ cp.prev = "signal_to_noise_map"

\* what an attribute holds: the immediate value, or the object unfolded
Held_by(h, a, f) ==
    IF IsRef(Attr(h, a, f)) THEN DeepValue(h, Attr(h, a, f).ref) ELSE Attr(h, a, f)

Replaced(op) ==
    IF op = "modified_visibilities_from_visibilities" THEN "data" ELSE "noise_map"

----------------------------------------------------------------------------
(* autoarray/dataset/interferometer.py: the simulator, and the structures   *)
(* and functions it calls.  A float that may be NaN is PyFloat(x) or PyNaN. *)

FMul(sigma, g) == IF sigma = PyNaN THEN PyNaN ELSE PyFloat(sigma.v * g)
FAdd(x, f) == IF f = PyNaN THEN PyNaN ELSE PyFloat(x + f.v)

\* arrays.Array.zeros(shape_2d, pixel_scales): a new array on a new mask
Array_zeros(h, shape_2d, pixel_scales) ==
    LET n == shape_2d.pair[1] * shape_2d.pair[2] IN
    [heap |-> h \o <<Object("Mask", [i \in 1..n |-> FALSE],
                            [shape_2d |-> shape_2d, pixel_scales |-> pixel_scales]),
                     Object("Array", [i \in 1..n |-> 0],
                            [mask |-> Ref(Len(h) + 1), shape_2d |-> shape_2d,
                             pixel_scales |-> pixel_scales])>>,
     ret |-> Len(h) + 2]

\* image + background_sky_map: a new array with the attributes of image
Array_add(h, image, other) ==
    [heap |-> Append(h, Object(h[image].cls,
                               [i \in DOMAIN h[image].data |->
                                   h[image].data[i] + h[other].data[i]],
                               h[image].fields)),
     ret |-> Len(h) + 1]

\* transformer.visibilities_from_image(image), of a transformer built of
\* uv_wavelengths and the real-space mask: a new Visibilities array
transformer_visibilities_from_image(h, transformer, image) ==
    LET uv == h[Attr(h, transformer, "uv_wavelengths").ref].data
        mask == Attr(h, transformer, "real_space_mask").ref
        grid == GridPositions(Attr(h, mask, "shape_2d").pair)
    IN  [heap |-> Append(h, Object("Visibilities",
                                   Visibilities(
                                       real_visibilities_jit(h[image].data, grid, uv),
                                       imag_visibilities_jit(h[image].data, grid, uv)
                                   ).data,
                                   NoFields)),
         ret |-> Len(h) + 1]

\* preprocess.data_with_gaussian_noise_added: a new array, each entry moved
\* by sigma times a draw of the standard normal distribution
data_with_gaussian_noise_added(h, data, sigma, draws) ==
    [heap |-> Append(h, Object("Visibilities",
                               [k \in DOMAIN h[data].data |->
                                   <<FAdd(h[data].data[k][1], FMul(sigma, draws[k][1])),
                                     FAdd(h[data].data[k][2], FMul(sigma, draws[k][2]))>>],
                               NoFields)),
     ret |-> Len(h) + 1]

\* vis.Visibilities.full(fill_value, shape_1d=(n,))
Visibilities_full(h, fill_value, n) ==
    [heap |-> Append(h, Object("Visibilities",
                               [k \in 1..n |-> <<fill_value, fill_value>>],
                               NoFields)),
     ret |-> Len(h) + 1]

\* np.isnan(noise_map).any()
isnan_any(noise_map) ==
    \E k \in DOMAIN noise_map : \E i \in 1..2 : noise_map[k][i] = PyNaN

\* AbstractSimulatorInterferometer.__init__
AbstractSimulatorInterferometer_init(h, uv_wavelengths, exposure_time_map, background_sky_map, transformer_class, noise_sigma, noise_if_add_noise_false, noise_seed) ==
    [heap |-> Append(h, Object("SimulatorInterferometer", <<>>,
                               [uv_wavelengths |-> Ref(uv_wavelengths),
                                exposure_time_map |-> exposure_time_map,
                                background_sky_map |-> background_sky_map,
                                transformer_class |-> PyClass(transformer_class),
                                noise_sigma |-> noise_sigma,
                                noise_if_add_noise_false |-> noise_if_add_noise_false,
                                noise_seed |-> PyInt(noise_seed)])),
     ret |-> Len(h) + 1]

\* from_image taking a map of zeros whatever background_sky_map is
background_sky_map_zeros(h, self, image) ==
    Array_zeros(h, Attr(h, image, "shape_2d"), Attr(h, image, "pixel_scales"))

\* from_image: the background sky map, the simulator's or a map of zeros
background_sky_map_of(h, self, image) ==
    IF Attr(h, self, "background_sky_map") # PyNone
    THEN [heap |-> h, ret |-> Attr(h, self, "background_sky_map").ref]
    ELSE Array_zeros(h, Attr(h, image, "shape_2d"), Attr(h, image, "pixel_scales"))

\* from_image filling the noise map with noise_if_add_noise_false whether
\* noise is added or not
noise_map_filled_as_if_no_noise(h, self, n) ==
    Visibilities_full(h, Attr(h, self, "noise_if_add_noise_false"), n)

\* from_image filling the noise map with the exposure time when the
\* simulator has one
noise_map_from_exposure_time_map(h, self, n) ==
    IF Attr(h, self, "exposure_time_map") # PyNone
    THEN Visibilities_full(h, Attr(h, self, "exposure_time_map"), n)
    ELSE IF Attr(h, self, "noise_sigma") # PyNone
    THEN Visibilities_full(h, Attr(h, self, "noise_sigma"), n)
    ELSE Visibilities_full(h, Attr(h, self, "noise_if_add_noise_false"), n)

\* from_image: the noise map, filled with noise_sigma when it is set and
\* with noise_if_add_noise_false when it is None
noise_map_of(h, self, n) ==
    IF Attr(h, self, "noise_sigma") # PyNone
    THEN Visibilities_full(h, Attr(h, self, "noise_sigma"), n)
    ELSE Visibilities_full(h, Attr(h, self, "noise_if_add_noise_false"), n)

\* AbstractSimulatorInterferometer.from_image; draws is what the random
\* generator gives for the seed
from_image(w, self, image, name, draws) ==
    LET transformer ==
            transformer_class_call(
                w, Attr(w.heap, self, "transformer_class").name,
                Attr(w.heap, self, "uv_wavelengths").ref,
                Attr(w.heap, image, "mask").ref)
        background_sky_map == background_sky_map_of(transformer.heap, self, image)
        image1 == Array_add(background_sky_map.heap, image, background_sky_map.ret)
        visibilities0 ==
            transformer_visibilities_from_image(image1.heap, transformer.ret,
                                                image1.ret)
        noise_sigma == Attr(w.heap, self, "noise_sigma")
        visibilities ==
            IF noise_sigma # PyNone
            THEN data_with_gaussian_noise_added(visibilities0.heap,
                                                visibilities0.ret, noise_sigma, draws)
            ELSE visibilities0
        noise_map ==
            noise_map_of(visibilities.heap, self,
                         Len(visibilities.heap[visibilities.ret].data))
    IN  IF isnan_any(noise_map.heap[noise_map.ret].data)
        THEN [heap |-> noise_map.heap, calls |-> transformer.calls,
              out |-> Raise("DataException")]
        ELSE LET interferometer ==
                     AbstractInterferometer_init(
                         World(noise_map.heap, transformer.calls),
                         visibilities.ret, noise_map.ret,
                         Attr(noise_map.heap, transformer.ret, "uv_wavelengths").ref,
                         PyNone, name)
             IN  [heap |-> interferometer.heap, calls |-> interferometer.calls,
                  out |-> Return(interferometer.ret)]

----------------------------------------------------------------------------
(* The simulator: one is made, then an image is simulated *)

ImageShapes == {PyTuple(1, 2), PyTuple(2, 2)}
NoiseValues == {PyFloat(1), PyFloat(2), PyNaN}
ExposureTimeMaps == {PyNone, PyFloat(300)}
Seeds == {0 - 1, 1}

\* what the random generator draws for n visibilities: a fixed sequence for
\* a seed, any sequence for the seed -1
Draws(seed, n) ==
    IF seed = 0 - 1
    THEN {[k \in 1..n |-> p] : p \in {<<0 - 1, 1>>, <<0, 0>>, <<2, 0 - 1>>}}
    ELSE {[k \in 1..n |-> <<((seed + k) % 3) - 1, ((seed + 2 * k) % 3) - 1>>]}

\* an image a caller makes: an Array on an unmasked Mask
NewArray(h, shape_2d, data) ==
    [heap |-> h \o <<Object("Mask", [i \in DOMAIN data |-> FALSE],
                            [shape_2d |-> shape_2d, pixel_scales |-> PyTuple(1, 1)]),
                     Object("Array", data,
                            [mask |-> Ref(Len(h) + 1), shape_2d |-> shape_2d,
                             pixel_scales |-> PyTuple(1, 1)])>>,
     ret |-> Len(h) + 2]

SimCall(image, draws, out) ==
    [kind |-> "call", image |-> image, draws |-> draws, out |-> out]

NewSimulator ==
    /\ sim = 0
    /\ \E n \in 1..MaxVis, c \in TransformerClasses,
          noise_sigma \in {PyNone} \cup NoiseValues,
          noise_if_add_noise_false \in NoiseValues,
          noise_seed \in Seeds,
          exposure_time_map \in ExposureTimeMaps,
          background \in {PyNone} \cup ImageShapes :
       \E uv \in UVIn(n) :
          LET h == Append(heap, Object("ndarray", uv, NoFields))
              b == IF background = PyNone
                   THEN [heap |-> h, ret |-> 0]
                   ELSE NewArray(h, background,
                                 [i \in 1..(background.pair[1] * background.pair[2])
                                     |-> i])
              r == AbstractSimulatorInterferometer_init(
                       b.heap, Len(h), exposure_time_map,
                       IF background = PyNone THEN PyNone ELSE Ref(b.ret),
                       c, noise_sigma, noise_if_add_noise_false, noise_seed)
          IN  /\ heap' = r.heap
              /\ sim' = r.ret
    /\ UNCHANGED <<fitsVars, plotVars, calls, simcall, datasetVars, acsVars, maskNewVars, maskVars, transformerVars>>

FromImage ==
    /\ sim # 0
    /\ simcall = NoCall
    /\ \E shape_2d \in IF Attr(heap, sim, "background_sky_map") = PyNone
                       THEN ImageShapes
                       ELSE {Attr(heap, Attr(heap, sim, "background_sky_map").ref,
                                  "shape_2d")} :
       \E data \in [1..(shape_2d.pair[1] * shape_2d.pair[2]) -> 0..1],
          draws \in Draws(Attr(heap, sim, "noise_seed").v,
                          Len(heap[Attr(heap, sim, "uv_wavelengths").ref].data)) :
          LET image == NewArray(heap, shape_2d, data)
              r == from_image(World(image.heap, calls), sim, image.ret,
                              PyStr("name"), draws)
          IN  /\ heap' = r.heap
              /\ calls' = r.calls
              /\ simcall' = SimCall(image.ret, draws, r.out)
    /\ UNCHANGED <<fitsVars, plotVars, sim, datasetVars, acsVars, maskNewVars, maskVars, transformerVars>>

InitSimulator ==
    /\ made = NoCall
    /\ got = NoCall /\ restored = NoCall
    /\ m = NoObj /\ m0 = NoObj /\ d = NoObj /\ dop = "none" /\ nops = 0 /\ trimmed = NoCall
    /\ tf = NoObj /\ vis = NoCall
    /\ heap = <<>> /\ calls = <<>>
    /\ ifm = 0 /\ mi = 0 /\ snap = NoObj /\ cp = NoCall /\ touched = FALSE
    /\ sim = 0 /\ simcall = NoCall
    /\ acs = NoCall
    /\ fs = NoObj /\ io = NoCall
    /\ plt = NoObj /\ pcall = NoCall

NextSimulator ==
    \/ NewSimulator
    \/ FromImage

SpecSimulator == InitSimulator /\ [][NextSimulator]_vars

----------------------------------------------------------------------------
(* The claims about the simulator *)

SimAttr(f) == Attr(heap, sim, f)

\* the image given plus the background sky map, pixel by pixel
ImagePlusBackground ==
    [i \in DOMAIN heap[simcall.image].data |->
        heap[simcall.image].data[i]
            + IF SimAttr("background_sky_map") = PyNone
              THEN 0
              ELSE heap[SimAttr("background_sky_map").ref].data[i]]

\* the transform of an image on the grid of a shape at the uv samples
TransformOf(image_1d, shape_2d, uv) ==
    [k \in DOMAIN uv |->
        <<Sum([j \in DOMAIN image_1d |->
                  image_1d[j] * Cos4(Quarters(uv[k], GridPositions(shape_2d)[j]))]),
          0 - Sum([j \in DOMAIN image_1d |->
                      image_1d[j] * Sin4(Quarters(uv[k], GridPositions(shape_2d)[j]))])>>]

(* C7: with noise_sigma None, the dataset from_image returns has a noise    *)
(* map of one entry per visibility, every one noise_if_add_noise_false;     *)
(* its visibilities are exactly the transformer's output for the image      *)
(* plus the background sky map (a map of zeros when none was given); and    *)
(* its uv_wavelengths are those of the transformer.                         *)
C7_NoNoiseAddedWhenSigmaNone ==
    (/\ simcall # NoCall
     /\ SimAttr("noise_sigma") = PyNone
     /\ simcall.out.kind = "return")
    => LET r == simcall.out.obj
           uv == heap[SimAttr("uv_wavelengths").ref].data
           fill == SimAttr("noise_if_add_noise_false")
       IN  /\ Len(calls) = 1
           /\ heap[Attr(heap, r, "noise_map").ref].data
                  = [k \in DOMAIN uv |-> <<fill, fill>>]
           /\ heap[Attr(heap, r, "data").ref].data
                  = TransformOf(ImagePlusBackground,
                                Attr(heap, simcall.image, "shape_2d").pair, uv)
           /\ Attr(heap, r, "uv_wavelengths")
                  = Attr(heap, calls[1].ret, "uv_wavelengths")
           /\ heap[Attr(heap, r, "uv_wavelengths").ref].data = uv

\* no noise asked for, an image of ones on a background sky map
C7_Witness ==
    /\ simcall # NoCall
    /\ SimAttr("noise_sigma") = PyNone
    /\ SimAttr("background_sky_map") # PyNone
    /\ simcall.out.kind = "return"
    /\ \A i \in DOMAIN heap[simcall.image].data : heap[simcall.image].data[i] = 1
    /\ Len(heap[Attr(heap, simcall.out.obj, "data").ref].data) = 2

\* the value the noise map is filled with
FillValue ==
    IF SimAttr("noise_sigma") # PyNone
    THEN SimAttr("noise_sigma")
    ELSE SimAttr("noise_if_add_noise_false")

----------------------------------------------------------------------------
(* autoarray/instruments/acs.py *)

PixelScaleACS == 5      \* pixel_scales=0.05, in hundredths of an arc-second

\* a Python string as the sequence of its characters
StrCOUNTS == <<"C", "O", "U", "N", "T", "S">>
StrCPS == <<"C", "P", "S">>

\* a in b, of two strings: a is a substring of b
str_in(a, b) ==
    \E i \in 0..(Len(b) - Len(a)) : SubSeq(b, i + 1, i + Len(a)) = a

\* array[r0:r1, c0:c1], the bounds clipped to the array as numpy does
Slice2D(a, r0, r1, c0, c1) ==
    LET rows == IF r1 < a.shape[1] THEN r1 ELSE a.shape[1]
        cols == IF c1 < a.shape[2] THEN c1 ELSE a.shape[2]
        h == IF rows > r0 THEN rows - r0 ELSE 0
        w == IF cols > c0 THEN cols - c0 ELSE 0
    IN  Array(a.dtype, <<h, w>>,
              [i \in 1..(h * w) |->
                  At(a, r0 + ((i - 1) \div w), c0 + ((i - 1) % w))])

\* layout_util.rotate_array_from_roe_corner: the array as it is for the
\* corner (1, 0), its rows reversed for (0, 0), its columns reversed for
\* (1, 1), both for (0, 1)
rotate_array_from_roe_corner(array, roe_corner) ==
    LET h == array.shape[1]
        w == array.shape[2]
    IN  Array(array.dtype, array.shape,
              [i \in 1..(h * w) |->
                  At(array,
                     IF roe_corner[1] = 0
                     THEN h - 1 - ((i - 1) \div w) ELSE (i - 1) \div w,
                     IF roe_corner[2] = 1
                     THEN w - 1 - ((i - 1) % w) ELSE (i - 1) % w)])

\* array_2d.Array2D.manual, called on the class cls
Array2D_manual(cls, array, exposure_info, pixel_scales) ==
    [cls |-> cls, arr |-> array, exposure_info |-> exposure_info,
     pixel_scales |-> PyTuple(pixel_scales, pixel_scales)]

fits_hdu_from_quadrant_letter(quadrant_letter) ==
    IF quadrant_letter = "A" \/ quadrant_letter = "B"
    THEN Value(1)
    ELSE IF quadrant_letter = "C" \/ quadrant_letter = "D"
         THEN Value(4)
         ELSE Raise("FrameException")

\* Array2DACS.left
left(cls, array_electrons, exposure_info) ==
    Array2D_manual(cls, rotate_array_from_roe_corner(array_electrons, <<1, 0>>),
                   exposure_info, PixelScaleACS)

\* Array2DACS.right
right(cls, array_electrons, exposure_info) ==
    Array2D_manual(cls, rotate_array_from_roe_corner(array_electrons, <<1, 1>>),
                   exposure_info, PixelScaleACS)

\* Array2DACS.from_ccd taking the columns from 0 for the right quadrants too
from_ccd_columns_from_zero(cls, array_electrons, quadrant_letter, parallel_size, serial_size, exposure_info) ==
    IF quadrant_letter = "B" \/ quadrant_letter = "C"
    THEN Return(left(cls, Slice2D(array_electrons, 0, parallel_size,
                                  0, serial_size), exposure_info))
    ELSE IF quadrant_letter = "A" \/ quadrant_letter = "D"
         THEN Return(right(cls, Slice2D(array_electrons, 0, parallel_size,
                                        0, serial_size), exposure_info))
         ELSE Raise("FrameException")

\* Array2DACS.from_ccd
from_ccd(cls, array_electrons, quadrant_letter, parallel_size, serial_size, exposure_info) ==
    IF quadrant_letter = "B" \/ quadrant_letter = "C"
    THEN Return(left(cls, Slice2D(array_electrons, 0, parallel_size,
                                  0, serial_size), exposure_info))
    ELSE IF quadrant_letter = "A" \/ quadrant_letter = "D"
         THEN Return(right(cls, Slice2D(array_electrons, 0, parallel_size,
                                        serial_size, serial_size * 2),
                           exposure_info))
         ELSE Raise("FrameException")

\* ExposureInfoACS.__init__
ExposureInfoACS_init(original_units, bscale, bzero, exposure_time, date_of_observation, time_of_observation, hdu) ==
    [cls |-> "ExposureInfoACS",
     exposure_time |-> exposure_time,
     date_of_observation |-> date_of_observation,
     time_of_observation |-> time_of_observation,
     original_units |-> original_units,
     bscale |-> bscale, bzero |-> bzero, hdu |-> hdu]

\* array_2d_util.numpy_array_2d_from_fits(file_path, hdu,
\* do_not_scale_image_data=True): the data of the HDU as stored
numpy_array_2d_from_fits_hdu(file, hdu) == file.hdus[hdu].data

\* array * k + c, entry by entry
Scaled(array, k, c) ==
    Array(array.dtype, array.shape,
          [i \in DOMAIN array.data |-> array.data[i] * k + c])

\* ImageACS.array_converted_to_electrons_from_fits leaving the exposure time
\* out of the conversion of counts per second
array_converted_without_exposure_time(file, hdu, exposure_info) ==
    LET array == numpy_array_2d_from_fits_hdu(file, hdu) IN
    IF str_in(exposure_info.original_units, StrCOUNTS)
       \/ str_in(exposure_info.original_units, StrCPS)
    THEN Value(Scaled(array, exposure_info.bscale, exposure_info.bzero))
    ELSE Value(PyNone)

\* ImageACS.array_converted_to_electrons_from_fits; a function that ends
\* without a return gives None
array_converted_to_electrons_from_fits(file, hdu, exposure_info) ==
    LET array == numpy_array_2d_from_fits_hdu(file, hdu) IN
    IF str_in(exposure_info.original_units, StrCOUNTS)
    THEN Value(Scaled(array, exposure_info.bscale, exposure_info.bzero))
    ELSE IF str_in(exposure_info.original_units, StrCPS)
         THEN Value(Scaled(array,
                           exposure_info.exposure_time * exposure_info.bscale,
                           exposure_info.bzero))
         ELSE Value(PyNone)

----------------------------------------------------------------------------
(* The ACS instrument: one operation is called *)

QuadrantLetters == {"A", "B", "C", "D", "E", "a", ""}

\* full read-outs of both quadrants, every pixel a value of its own
CcdArrays ==
    {Array("float", <<h, w>>, [i \in 1..(h * w) |-> i + k]) :
        h \in 1..2, w \in {2, 4}, k \in {0, 10}}

UnitStrings ==
    {StrCOUNTS, StrCPS, <<>>, <<"C">>, <<"S">>, <<"P", "S">>,
     <<"C", "O", "U", "N", "T">>, <<"c", "p", "s">>,
     <<"E", "L", "E", "C", "T", "R", "O", "N", "S">>}

ExposureInfos ==
    {ExposureInfoACS_init(u, bscale, bzero, exposure_time,
                          PyStr("2000-01-01"), PyStr("00:00:00"), hdu) :
        u \in UnitStrings, bscale \in {1, 2}, bzero \in {0, 1},
        exposure_time \in {1, 5}, hdu \in {1, 4}}

AcsFiles ==
    {[hdus |-> [h \in {1, 4} |->
                   [data |-> Array("float", <<1, 2>>, <<10, h + r>>)]]] :
        r \in {0, 1}}

AcsCall(op, args, out) == [kind |-> "call", op |-> op, args |-> args, out |-> out]

FitsHduFromQuadrantLetter ==
    /\ acs = NoCall
    /\ \E letter \in QuadrantLetters :
          acs' = AcsCall("fits_hdu_from_quadrant_letter",
                         [quadrant_letter |-> letter],
                         fits_hdu_from_quadrant_letter(letter))
    /\ UNCHANGED <<fitsVars, plotVars, maskNewVars, maskVars, transformerVars, heapVars, datasetVars, simVars>>

FromCcd ==
    /\ acs = NoCall
    /\ \E array \in CcdArrays, letter \in QuadrantLetters,
          parallel_size \in 1..2, serial_size \in 1..2,
          cls \in {"Array2DACS", "ImageACS"} :
          /\ serial_size * 2 <= array.shape[2]
          /\ acs' = AcsCall("from_ccd",
                            [array_electrons |-> array,
                             quadrant_letter |-> letter,
                             parallel_size |-> parallel_size,
                             serial_size |-> serial_size],
                            from_ccd(cls, array, letter, parallel_size,
                                     serial_size, PyNone))
    /\ UNCHANGED <<fitsVars, plotVars, maskNewVars, maskVars, transformerVars, heapVars, datasetVars, simVars>>

ArrayConvertedToElectronsFromFits ==
    /\ acs = NoCall
    /\ \E file \in AcsFiles, exposure_info \in ExposureInfos :
          acs' = AcsCall("array_converted_to_electrons_from_fits",
                         [file |-> file, hdu |-> exposure_info.hdu,
                          exposure_info |-> exposure_info],
                         array_converted_to_electrons_from_fits(
                             file, exposure_info.hdu, exposure_info))
    /\ UNCHANGED <<fitsVars, plotVars, maskNewVars, maskVars, transformerVars, heapVars, datasetVars, simVars>>

\* the greatest common divisor of two naturals
RECURSIVE GCD(_, _)
GCD(a, b) == IF b = 0 THEN a ELSE GCD(b, a % b)

\* a quotient in lowest terms, the denominator positive
Reduced(q) ==
    IF q.t # "ratio"
    THEN q
    ELSE LET g == GCD(Abs(q.num), Abs(q.den))
             sign == IF q.den < 0 THEN 0 - 1 ELSE 1
         IN  [t |-> "ratio", num |-> sign * (q.num \div g),
              den |-> sign * (q.den \div g)]

\* array_eps_to_counts adding bzero where the code takes it away
array_eps_to_counts_bzero_added(array_eps, bscale, bzero) ==
    IF bscale = PyNone
    THEN Raise("FrameException")
    ELSE Value(Array(array_eps.dtype, array_eps.shape,
                     [i \in DOMAIN array_eps.data |->
                         Reduced(Divide(array_eps.data[i] + bzero.v, bscale.v))]))

\* array_eps_to_counts (the function of the module); bscale is None or a
\* float, bzero a float
array_eps_to_counts(array_eps, bscale, bzero) ==
    IF bscale = PyNone
    THEN Raise("FrameException")
    ELSE Value(Array(array_eps.dtype, array_eps.shape,
                     [i \in DOMAIN array_eps.data |->
                         Reduced(Divide(array_eps.data[i] - bzero.v, bscale.v))]))

\* ExposureInfoACS.array_eps_to_counts
ExposureInfoACS_array_eps_to_counts(self, array_eps) ==
    array_eps_to_counts(array_eps, self.bscale, self.bzero)

\* the calibrations an exposure may carry: bscale absent, zero or not
Calibrations ==
    {ExposureInfoACS_init(StrCOUNTS, bscale, PyFloat(bzero), 1,
                          PyStr("2000-01-01"), PyStr("00:00:00"), 1) :
        bscale \in {PyNone, PyFloat(0), PyFloat(1), PyFloat(2), PyFloat(3)},
        bzero \in {0, 1, 4}}

RawArrays ==
    {Array("float", <<1, 2>>, <<a, b>>) : a \in {0, 10}, b \in 0..3}

\* array_eps is any array, or (converted) what the COUNTS conversion makes
\* of it with the calibration of the exposure
ArrayEpsToCounts ==
    /\ acs = NoCall
    /\ \E exposure_info \in Calibrations, raw \in RawArrays,
          converted \in BOOLEAN :
          /\ converted => exposure_info.bscale # PyNone
          /\ LET array_eps ==
                     IF converted
                     THEN Scaled(raw, exposure_info.bscale.v,
                                 exposure_info.bzero.v)
                     ELSE raw
             IN  acs' = AcsCall("array_eps_to_counts",
                                [exposure_info |-> exposure_info,
                                 array_eps |-> array_eps,
                                 converted |-> converted,
                                 raw |-> raw],
                                ExposureInfoACS_array_eps_to_counts(
                                    exposure_info, array_eps))
    /\ UNCHANGED <<fitsVars, plotVars, maskNewVars, maskVars, transformerVars, heapVars, datasetVars, simVars>>

\* ------------------------------------------------------------------------
\* Layout2DACS (acs.py): the regions of a quadrant that hold no science data
\* ------------------------------------------------------------------------

\* an argument the caller leaves to its default
NotGiven == [t |-> "notgiven"]

Arg(given, default) == IF given = NotGiven THEN default ELSE given.v

\* the default arguments of from_ccd, left and right
ParallelSizeDefault == 2068
SerialSizeDefault == 2072
SerialPrescanSizeFromCcd == 24
SerialPrescanSizeLeft == 24
SerialPrescanSizeRight == 51
ParallelOverscanSizeDefault == 20

\* region.Region2D((y0, y1, x0, x1))
Region2D(region) == [y0 |-> region[1], y1 |-> region[2], x0 |-> region[3], x1 |-> region[4]]

\* the region seen from the canonical corner: rows counted from the other
\* end for the corners (0, .), columns for the corners (., 1)
rotate_region_from_roe_corner(region, shape_native, roe_corner) ==
    LET rows == IF roe_corner[1] = 0
                THEN <<shape_native[1] - region.y1, shape_native[1] - region.y0>>
                ELSE <<region.y0, region.y1>>
        cols == IF roe_corner[2] = 1
                THEN <<shape_native[2] - region.x1, shape_native[2] - region.x0>>
                ELSE <<region.x0, region.x1>>
    IN  Region2D(<<rows[1], rows[2], cols[1], cols[2]>>)

\* layout.Layout2D.rotated_from_roe_corner
Layout2D_rotated_from_roe_corner(roe_corner, shape_native, parallel_overscan, serial_prescan) ==
    [cls |-> "Layout2D",
     original_roe_corner |-> roe_corner,
     shape_2d |-> shape_native,
     parallel_overscan |->
         rotate_region_from_roe_corner(parallel_overscan, shape_native, roe_corner),
     serial_prescan |->
         rotate_region_from_roe_corner(serial_prescan, shape_native, roe_corner)]

\* Layout2DACS.left
Layout2DACS_left(parallel_size_, serial_size_, serial_prescan_size_, parallel_overscan_size_) ==
    LET parallel_size == Arg(parallel_size_, ParallelSizeDefault)
        serial_size == Arg(serial_size_, SerialSizeDefault)
        serial_prescan_size == Arg(serial_prescan_size_, SerialPrescanSizeLeft)
        parallel_overscan_size ==
            Arg(parallel_overscan_size_, ParallelOverscanSizeDefault)
        parallel_overscan ==
            Region2D(<<parallel_size - parallel_overscan_size, parallel_size,
                       serial_prescan_size, serial_size>>)
        serial_prescan == Region2D(<<0, parallel_size, 0, serial_prescan_size>>)
    IN  Layout2D_rotated_from_roe_corner(
            <<1, 0>>, <<parallel_size, serial_size>>,
            parallel_overscan, serial_prescan)

\* Layout2DACS.right
Layout2DACS_right(parallel_size_, serial_size_, parallel_overscan_size_, serial_prescan_size_) ==
    LET parallel_size == Arg(parallel_size_, ParallelSizeDefault)
        serial_size == Arg(serial_size_, SerialSizeDefault)
        parallel_overscan_size ==
            Arg(parallel_overscan_size_, ParallelOverscanSizeDefault)
        serial_prescan_size == Arg(serial_prescan_size_, SerialPrescanSizeRight)
        parallel_overscan ==
            Region2D(<<parallel_size - parallel_overscan_size, parallel_size,
                       0, serial_size - serial_prescan_size>>)
        serial_prescan ==
            Region2D(<<0, parallel_size,
                       serial_size - serial_prescan_size, serial_size>>)
    IN  Layout2D_rotated_from_roe_corner(
            <<1, 1>>, <<parallel_size, serial_size>>,
            parallel_overscan, serial_prescan)

\* Layout2DACS.from_ccd: its own defaults are handed on to left and right by
\* keyword
Layout2DACS_from_ccd(quadrant_letter, parallel_size_, serial_size_, serial_prescan_size_, parallel_overscan_size_) ==
    LET parallel_size == Arg(parallel_size_, ParallelSizeDefault)
        serial_size == Arg(serial_size_, SerialSizeDefault)
        serial_prescan_size == Arg(serial_prescan_size_, SerialPrescanSizeFromCcd)
        parallel_overscan_size ==
            Arg(parallel_overscan_size_, ParallelOverscanSizeDefault)
    IN  IF quadrant_letter = "B" \/ quadrant_letter = "C"
        THEN Value(Layout2DACS_left(
                       PyInt(parallel_size), PyInt(serial_size),
                       PyInt(serial_prescan_size), PyInt(parallel_overscan_size)))
        ELSE IF quadrant_letter = "A" \/ quadrant_letter = "D"
        THEN Value(Layout2DACS_right(
                       PyInt(parallel_size), PyInt(serial_size),
                       PyInt(parallel_overscan_size), PyInt(serial_prescan_size)))
        ELSE Raise("FrameException")

\* the sizes a caller may give, or leave to the defaults
LayoutSizes ==
    [parallel_size : {NotGiven, PyInt(4)}, serial_size : {NotGiven, PyInt(6)},
     serial_prescan_size : {NotGiven, PyInt(1), PyInt(2)},
     parallel_overscan_size : {NotGiven, PyInt(1)}]

LayoutFromCcd ==
    /\ acs = NoCall
    /\ \E letter \in QuadrantLetters, s \in LayoutSizes :
          acs' = AcsCall("Layout2DACS.from_ccd",
                         [quadrant_letter |-> letter, sizes |-> s],
                         Layout2DACS_from_ccd(
                             letter, s.parallel_size, s.serial_size,
                             s.serial_prescan_size, s.parallel_overscan_size))
    /\ UNCHANGED <<fitsVars, plotVars, maskNewVars, maskVars, transformerVars, heapVars, datasetVars, simVars>>

LayoutLeft ==
    /\ acs = NoCall
    /\ \E s \in LayoutSizes :
          acs' = AcsCall("Layout2DACS.left", [sizes |-> s],
                         Value(Layout2DACS_left(
                             s.parallel_size, s.serial_size,
                             s.serial_prescan_size, s.parallel_overscan_size)))
    /\ UNCHANGED <<fitsVars, plotVars, maskNewVars, maskVars, transformerVars, heapVars, datasetVars, simVars>>

LayoutRight ==
    /\ acs = NoCall
    /\ \E s \in LayoutSizes :
          acs' = AcsCall("Layout2DACS.right", [sizes |-> s],
                         Value(Layout2DACS_right(
                             s.parallel_size, s.serial_size,
                             s.parallel_overscan_size, s.serial_prescan_size)))
    /\ UNCHANGED <<fitsVars, plotVars, maskNewVars, maskVars, transformerVars, heapVars, datasetVars, simVars>>

InitACS ==
    /\ made = NoCall
    /\ got = NoCall /\ restored = NoCall
    /\ m = NoObj /\ m0 = NoObj /\ d = NoObj /\ dop = "none" /\ nops = 0 /\ trimmed = NoCall
    /\ tf = NoObj /\ vis = NoCall
    /\ heap = <<>> /\ calls = <<>>
    /\ ifm = 0 /\ mi = 0 /\ snap = NoObj /\ cp = NoCall /\ touched = FALSE
    /\ sim = 0 /\ simcall = NoCall
    /\ acs = NoCall
    /\ fs = NoObj /\ io = NoCall
    /\ plt = NoObj /\ pcall = NoCall

NextACS ==
    \/ FitsHduFromQuadrantLetter
    \/ FromCcd
    \/ ArrayConvertedToElectronsFromFits
    \/ ArrayEpsToCounts
    \/ LayoutFromCcd
    \/ LayoutLeft
    \/ LayoutRight

SpecACS == InitACS /\ [][NextACS]_vars

----------------------------------------------------------------------------
(* The claims about the ACS instrument *)

Called(op) == acs # NoCall /\ acs.op = op

\* the number of rows and columns from_ccd takes of the array given
RowsTaken ==
    IF acs.args.parallel_size < acs.args.array_electrons.shape[1]
    THEN acs.args.parallel_size
    ELSE acs.args.array_electrons.shape[1]

(* C9: fits_hdu_from_quadrant_letter returns 1 for A and B and 4 for C and  *)
(* D; Array2DACS.from_ccd returns rows 0:parallel_size and columns          *)
(* 0:serial_size as they are (read-out corner (1,0)) for B and C, and       *)
(* columns serial_size:2*serial_size with the columns reversed (read-out    *)
(* corner (1,1)) for A and D; for every other letter both raise             *)
(* FrameException and return no array.                                      *)
C9_QuadrantDispatch ==
    /\ Called("fits_hdu_from_quadrant_letter") =>
          acs.out = CASE acs.args.quadrant_letter \in {"A", "B"} -> Value(1)
                      [] acs.args.quadrant_letter \in {"C", "D"} -> Value(4)
                      [] OTHER -> Raise("FrameException")
    /\ Called("from_ccd") =>
          LET a == acs.args.array_electrons
              s == acs.args.serial_size
          IN  CASE acs.args.quadrant_letter \in {"B", "C"} ->
                      /\ acs.out.kind = "return"
                      /\ acs.out.obj.arr.shape = <<RowsTaken, s>>
                      /\ \A y \in 0..(RowsTaken - 1), x \in 0..(s - 1) :
                            At(acs.out.obj.arr, y, x) = At(a, y, x)
                [] acs.args.quadrant_letter \in {"A", "D"} ->
                      /\ acs.out.kind = "return"
                      /\ acs.out.obj.arr.shape = <<RowsTaken, s>>
                      /\ \A y \in 0..(RowsTaken - 1), x \in 0..(s - 1) :
                            At(acs.out.obj.arr, y, x) = At(a, y, s + (s - 1 - x))
                [] OTHER -> acs.out = Raise("FrameException")

\* a right quadrant of two columns taken of a read-out of two rows
C9_Witness ==
    /\ Called("from_ccd")
    /\ acs.args.quadrant_letter = "D"
    /\ acs.args.serial_size = 2
    /\ acs.args.parallel_size = 1
    /\ acs.args.array_electrons.shape = <<2, 4>>
    /\ acs.out.kind = "return"
    /\ acs.out.obj.arr.data = <<4, 3>>

(* C10: ImageACS.array_converted_to_electrons_from_fits returns             *)
(* raw * bscale + bzero for every pixel when original_units is COUNTS and   *)
(* raw * exposure_time * bscale + bzero when it is CPS.                     *)
C10_ConvertedToElectrons ==
    (/\ Called("array_converted_to_electrons_from_fits")
     /\ acs.args.exposure_info.original_units \in {StrCOUNTS, StrCPS})
    => LET e == acs.args.exposure_info
           raw == acs.args.file.hdus[acs.args.hdu].data
           k == IF e.original_units = StrCOUNTS
                THEN e.bscale
                ELSE e.exposure_time * e.bscale
       IN  /\ acs.out.kind = "value"
           /\ acs.out.v.shape = raw.shape
           /\ \A i \in DOMAIN raw.data :
                 acs.out.v.data[i] = raw.data[i] * k + e.bzero

\* raw = 10, bscale = 2, bzero = 1 and exposure_time = 5 under CPS give 101
C10_Witness ==
    /\ Called("array_converted_to_electrons_from_fits")
    /\ acs.args.exposure_info.original_units = StrCPS
    /\ acs.args.exposure_info.bscale = 2
    /\ acs.args.exposure_info.bzero = 1
    /\ acs.args.exposure_info.exposure_time = 5
    /\ acs.args.file.hdus[acs.args.hdu].data.data[1] = 10
    /\ acs.out.v.data[1] = 101

(* C11: for every original_units string other than exactly "COUNTS" or      *)
(* exactly "CPS", the empty string and the fragments of the two included,   *)
(* array_converted_to_electrons_from_fits converts nothing and returns no   *)
(* value (None).                                                            *)
C11_OtherUnitsReturnNothing ==
    (/\ Called("array_converted_to_electrons_from_fits")
     /\ acs.args.exposure_info.original_units \notin {StrCOUNTS, StrCPS})
    => acs.out = Value(PyNone)

(* C12: ExposureInfoACS.array_eps_to_counts returns                         *)
(* (array_eps - bzero) / bscale whenever bscale is present, so that applied *)
(* to raw * bscale + bzero with bscale not zero it returns raw; when bscale *)
(* is None it raises FrameException and returns no value.                   *)
C12_EpsToCountsUndoesConversion ==
    Called("array_eps_to_counts") =>
        LET e == acs.args.exposure_info
            a == acs.args.array_eps
        IN  IF e.bscale = PyNone
            THEN acs.out = Raise("FrameException")
            ELSE /\ acs.out.kind = "value"
                 /\ acs.out.v.shape = a.shape
                 /\ \A i \in DOMAIN a.data :
                       LET q == acs.out.v.data[i] IN
                       IF e.bscale.v = 0
                       THEN q.t = IF a.data[i] = e.bzero.v THEN "nan" ELSE "inf"
                       ELSE /\ q.t = "ratio"
                            /\ q.den > 0
                            /\ q.num * e.bscale.v
                                   = (a.data[i] - e.bzero.v) * q.den
                            /\ acs.args.converted =>
                                  q = [t |-> "ratio",
                                       num |-> acs.args.raw.data[i], den |-> 1]

\* the conversion of raw = (10, 3) with bscale 3 and bzero 4 undone
C12_Witness ==
    /\ Called("array_eps_to_counts")
    /\ acs.args.converted
    /\ acs.args.exposure_info.bscale = PyFloat(3)
    /\ acs.args.exposure_info.bzero = PyFloat(4)
    /\ acs.args.array_eps.data = <<34, 13>>
    /\ acs.out.kind = "value"
    /\ acs.out.v.data[1].num = 10

\* the width in columns and the height in rows of a region
Columns(region) == region.x1 - region.x0

Rows(region) == region.y1 - region.y0

AllDefaults ==
    acs.args.sizes = [parallel_size |-> NotGiven, serial_size |-> NotGiven,
                      serial_prescan_size |-> NotGiven,
                      parallel_overscan_size |-> NotGiven]

(* C13: with default arguments Layout2DACS.from_ccd builds a layout whose   *)
(* serial prescan is 24 columns wide for the quadrants B and C and 51       *)
(* columns wide for A and D, the parallel overscan 20 rows high: the        *)
(* regions of left() for B and C and of right() for A and D, each called    *)
(* with its own defaults.                                                   *)
C13_FromCcdDefaultsAreThoseOfLeftAndRight ==
    (Called("Layout2DACS.from_ccd") /\ AllDefaults) =>
        /\ acs.args.quadrant_letter \in {"B", "C"} =>
              /\ acs.out = Value(Layout2DACS_left(NotGiven, NotGiven, NotGiven, NotGiven))
              /\ Columns(acs.out.v.serial_prescan) = 24
              /\ Rows(acs.out.v.parallel_overscan) = 20
        /\ acs.args.quadrant_letter \in {"A", "D"} =>
              /\ acs.out = Value(Layout2DACS_right(NotGiven, NotGiven, NotGiven, NotGiven))
              /\ Columns(acs.out.v.serial_prescan) = 51
              /\ Rows(acs.out.v.parallel_overscan) = 20

-----------------------------------------------------------------------------
(* .fits files on disk: Array2DACS.update_fits (acs.py) and                *)
(* Interferometer.output_to_fits (interferometer.py)                       *)

\* a path: the directory part and the file name (os.path.split)
Path(dir, name) == [dir |-> dir, name |-> name]

Paths == {Path("in", "j.fits"), Path("out", "j.fits"), Path("", "j.fits")}

NoFile == [kind |-> "none"]

\* a header-data-unit and a .fits file of n of them, numbered from 0
HDU(keys, data) == [keys |-> keys, data |-> data]

FitsFile(hdus) == [kind |-> "fits", hdus |-> hdus]

\* the exposures on disk: two or five header-data-units, the data of each
\* its own, BSCALE in every header or in none
Exposures(k) ==
    {FitsFile([h \in 0..(n - 1) |->
                  HDU(keys, Array("float", <<1, 2>>, <<k, h>>))]) :
        n \in {2, 5}, keys \in {{"BSCALE", "BZERO"}, {}}}

\* os.path.exists: the working directory has the empty name, which does not
\* exist as a path
exists_dir(f, dir) == dir \in f.dirs

exists_file(f, path) == f.files[path] # NoFile

\* the file systems a call may find: a file lies in a directory that
\* exists (or in the working directory)
FileSystems ==
    {f \in [dirs : SUBSET {"in", "out"},
            files : [Paths -> {NoFile} \cup Exposures(10) \cup Exposures(20)]] :
        /\ f.files[Path("in", "j.fits")] \in {NoFile} \cup Exposures(10)
        /\ f.files[Path("out", "j.fits")] \in
               {NoFile} \cup {e \in Exposures(20) : DOMAIN e.hdus = 0..4}
        /\ f.files[Path("", "j.fits")] = NoFile
        /\ \A p \in Paths :
               (f.files[p] # NoFile /\ p.dir # "") => p.dir \in f.dirs}

\* layout.Layout2D.original_orientation_from: the rotation to the canonical
\* corner done once more, which undoes it
original_orientation_from(layout, array) ==
    rotate_array_from_roe_corner(array.arr, layout.original_roe_corner)

\* the arrays update_fits is called on: with or without exposure_info
Array2DACSs ==
    {[cls |-> "Array2DACS", arr |-> Array("float", <<1, 2>>, <<7, 8>>),
      exposure_info |-> e, layout |-> [original_roe_corner |-> c]] :
        e \in {PyNone} \cup
              {ExposureInfoACS_init(StrCOUNTS, 1, 0, 1, PyStr("2000-01-01"),
                                    PyStr("00:00:00"), hdu) : hdu \in {1, 4}},
        c \in {<<1, 0>>, <<1, 1>>}}

\* the call at the step pc; fs0 is the file system the call found
UpdateFits(self, original_file_path, new_file_path, fs0, pc, hdulist, exc) ==
    [kind |-> "call", op |-> "update_fits", self |-> self,
     original_file_path |-> original_file_path,
     new_file_path |-> new_file_path,
     fs0 |-> fs0, pc |-> pc, hdulist |-> hdulist, exc |-> exc]

At_pc(pc) == io # NoCall /\ io.op = "update_fits" /\ io.pc = pc

Goto(pc) == io' = [io EXCEPT !.pc = pc]

Raised(exc) == io' = [io EXCEPT !.pc = "raised", !.exc = exc]

\* update_fits is called
UpdateFitsCalled ==
    /\ io = NoCall
    /\ \E self \in Array2DACSs, original_file_path \in Paths, new_file_path \in Paths :
          io' = UpdateFits(self, original_file_path, new_file_path, fs,
                           "makedirs", <<>>, "none")
    /\ UNCHANGED <<fs, plotVars, maskNewVars, maskVars, transformerVars, heapVars, datasetVars, simVars, acsVars>>

\* if not os.path.exists(new_file_dir): os.makedirs(new_file_dir)
UpdateFitsMakedirs ==
    /\ At_pc("makedirs")
    /\ LET new_file_dir == io.new_file_path.dir IN
       IF exists_dir(fs, new_file_dir)
       THEN Goto("copy") /\ fs' = fs
       ELSE IF new_file_dir = ""
            THEN Raised("FileNotFoundError") /\ fs' = fs
            ELSE /\ Goto("copy")
                 /\ fs' = [fs EXCEPT !.dirs = @ \cup {new_file_dir}]
    /\ UNCHANGED <<plotVars, maskNewVars, maskVars, transformerVars, heapVars, datasetVars, simVars, acsVars>>

\* update_fits copying the original over a destination that exists
UpdateFitsCopyAlways ==
    /\ At_pc("copy")
    /\ IF ~exists_file(fs, io.original_file_path)
       THEN Raised("FileNotFoundError") /\ fs' = fs
       ELSE /\ Goto("open")
            /\ fs' = [fs EXCEPT !.files[io.new_file_path] =
                                    fs.files[io.original_file_path]]
    /\ UNCHANGED <<plotVars, maskNewVars, maskVars, transformerVars, heapVars, datasetVars, simVars, acsVars>>

\* if not os.path.exists(new_file_path): shutil.copy(original, new)
UpdateFitsCopy ==
    /\ At_pc("copy")
    /\ IF exists_file(fs, io.new_file_path)
       THEN Goto("open") /\ fs' = fs
       ELSE IF ~exists_file(fs, io.original_file_path)
            THEN Raised("FileNotFoundError") /\ fs' = fs
            ELSE /\ Goto("open")
                 /\ fs' = [fs EXCEPT !.files[io.new_file_path] =
                                         fs.files[io.original_file_path]]
    /\ UNCHANGED <<plotVars, maskNewVars, maskVars, transformerVars, heapVars, datasetVars, simVars, acsVars>>

\* hdulist = fits.open(new_file_path)
UpdateFitsOpen ==
    /\ At_pc("open")
    /\ io' = [io EXCEPT !.pc = "replace",
                        !.hdulist = fs.files[io.new_file_path].hdus]
    /\ UNCHANGED <<fs, plotVars, maskNewVars, maskVars, transformerVars, heapVars, datasetVars, simVars, acsVars>>

\* update_fits going on when the array has no exposure_info
UpdateFitsReplaceIfAny ==
    /\ At_pc("replace")
    /\ IF io.self.exposure_info = PyNone
       THEN Goto("header")
       ELSE IF io.self.exposure_info.hdu \notin DOMAIN io.hdulist
            THEN Raised("IndexError")
            ELSE io' = [io EXCEPT
                           !.pc = "header",
                           !.hdulist[io.self.exposure_info.hdu].data =
                               original_orientation_from(io.self.layout, io.self)]
    /\ UNCHANGED <<fs, plotVars, maskNewVars, maskVars, transformerVars, heapVars, datasetVars, simVars, acsVars>>

\* hdulist[self.exposure_info.hdu].data =
\*     self.layout.original_orientation_from(array=self)
UpdateFitsReplace ==
    /\ At_pc("replace")
    /\ IF io.self.exposure_info = PyNone
       THEN Raised("AttributeError")
       ELSE IF io.self.exposure_info.hdu \notin DOMAIN io.hdulist
            THEN Raised("IndexError")
            ELSE io' = [io EXCEPT
                           !.pc = "header",
                           !.hdulist[io.self.exposure_info.hdu].data =
                               original_orientation_from(io.self.layout, io.self)]
    /\ UNCHANGED <<fs, plotVars, maskNewVars, maskVars, transformerVars, heapVars, datasetVars, simVars, acsVars>>

\* ext_header = hdulist[4].header; bscale = ext_header["BSCALE"]
UpdateFitsHeader ==
    /\ At_pc("header")
    /\ IF 4 \notin DOMAIN io.hdulist
       THEN Raised("IndexError")
       ELSE IF "BSCALE" \notin io.hdulist[4].keys
            THEN Raised("KeyError")
            ELSE Goto("remove")
    /\ UNCHANGED <<fs, plotVars, maskNewVars, maskVars, transformerVars, heapVars, datasetVars, simVars, acsVars>>

\* update_fits leaving the destination where it is before the rewrite
UpdateFitsRemoveNothing ==
    /\ At_pc("remove")
    /\ Goto("writeto")
    /\ UNCHANGED <<fs, plotVars, maskNewVars, maskVars, transformerVars, heapVars, datasetVars, simVars, acsVars>>

\* os.remove(new_file_path)
UpdateFitsRemove ==
    /\ At_pc("remove")
    /\ Goto("writeto")
    /\ fs' = [fs EXCEPT !.files[io.new_file_path] = NoFile]
    /\ UNCHANGED <<plotVars, maskNewVars, maskVars, transformerVars, heapVars, datasetVars, simVars, acsVars>>

\* hdulist.writeto(new_file_path): the write may fail (a full disk, a
\* directory taken away), and then nothing is put back
UpdateFitsWriteto ==
    /\ At_pc("writeto")
    /\ \E written \in BOOLEAN :
          IF written
          THEN /\ Goto("done")
               /\ fs' = [fs EXCEPT !.files[io.new_file_path] = FitsFile(io.hdulist)]
          ELSE Raised("OSError") /\ fs' = fs
    /\ UNCHANGED <<plotVars, maskNewVars, maskVars, transformerVars, heapVars, datasetVars, simVars, acsVars>>

\* array_util.numpy_array_2d_to_fits and the output_to_fits of Visibilities:
\* the array is written to the path as a file of one header-data-unit, rows
\* reversed; a file there is replaced if overwrite is true and is an error
\* otherwise. st is the file system, the error raised and the components
\* written so far; nothing more is done after an error.
numpy_array_2d_to_fits(st, component, array_2d, file_path, overwrite) ==
    IF st.exc # "none"
    THEN st
    ELSE IF file_path.dir # "" /\ ~exists_dir(st.fs, file_path.dir)
    THEN [st EXCEPT !.exc = "FileNotFoundError"]
    ELSE IF exists_file(st.fs, file_path) /\ ~overwrite
    THEN [st EXCEPT !.exc = "OSError"]
    ELSE [st EXCEPT
             !.fs.files[file_path] =
                 FitsFile([h \in {0} |->
                     HDU({}, rotate_array_from_roe_corner(array_2d, <<0, 0>>))]),
             !.wrote = @ \cup {component}]

\* Interferometer.output_to_fits
output_to_fits(f, self, visibilities_path, noise_map_path, uv_wavelengths_path, overwrite) ==
    LET st0 == [fs |-> f, exc |-> "none", wrote |-> {}]
        st1 == IF visibilities_path # PyNone
               THEN numpy_array_2d_to_fits(st0, "visibilities", self.visibilities,
                                           visibilities_path, overwrite)
               ELSE st0
        st2 == IF self.noise_map # PyNone /\ noise_map_path # PyNone
               THEN numpy_array_2d_to_fits(st1, "noise_map", self.noise_map,
                                           noise_map_path, overwrite)
               ELSE st1
        st3 == IF self.uv_wavelengths # PyNone /\ uv_wavelengths_path # PyNone
               THEN numpy_array_2d_to_fits(st2, "uv_wavelengths", self.uv_wavelengths,
                                           uv_wavelengths_path, overwrite)
               ELSE st2
    IN  st3

\* the datasets written: the noise map and the uv_wavelengths may be None
Interferometers ==
    {[cls |-> "Interferometer",
      visibilities |-> Array("float", <<1, 2>>, <<1, 2>>),
      noise_map |-> n, uv_wavelengths |-> u] :
        n \in {PyNone, Array("float", <<1, 2>>, <<3, 3>>)},
        u \in {PyNone, Array("float", <<1, 2>>, <<5, 6>>)}}

OutputToFits ==
    /\ io = NoCall
    /\ \E self \in Interferometers, overwrite \in BOOLEAN,
          visibilities_path \in Paths \cup {PyNone},
          noise_map_path \in Paths \cup {PyNone},
          uv_wavelengths_path \in Paths \cup {PyNone} :
          LET st == output_to_fits(fs, self, visibilities_path, noise_map_path,
                                   uv_wavelengths_path, overwrite)
          IN  /\ fs' = st.fs
              /\ io' = [kind |-> "call", op |-> "output_to_fits", self |-> self,
                        visibilities_path |-> visibilities_path,
                        noise_map_path |-> noise_map_path,
                        uv_wavelengths_path |-> uv_wavelengths_path,
                        overwrite |-> overwrite, fs0 |-> fs,
                        exc |-> st.exc, wrote |-> st.wrote]
    /\ UNCHANGED <<plotVars, maskNewVars, maskVars, transformerVars, heapVars, datasetVars, simVars, acsVars>>

InitFits ==
    /\ made = NoCall
    /\ got = NoCall /\ restored = NoCall
    /\ m = NoObj /\ m0 = NoObj /\ d = NoObj /\ dop = "none" /\ nops = 0 /\ trimmed = NoCall
    /\ tf = NoObj /\ vis = NoCall
    /\ heap = <<>> /\ calls = <<>>
    /\ ifm = 0 /\ mi = 0 /\ snap = NoObj /\ cp = NoCall /\ touched = FALSE
    /\ sim = 0 /\ simcall = NoCall
    /\ acs = NoCall
    /\ fs \in FileSystems /\ io = NoCall
    /\ plt = NoObj /\ pcall = NoCall

NextFits ==
    \/ UpdateFitsCalled
    \/ UpdateFitsMakedirs
    \/ UpdateFitsCopy
    \/ UpdateFitsOpen
    \/ UpdateFitsReplace
    \/ UpdateFitsHeader
    \/ UpdateFitsRemove
    \/ UpdateFitsWriteto
    \/ OutputToFits

SpecFits == InitFits /\ [][NextFits]_vars

\* the file update_fits starts from: the destination if there was one, a
\* copy of the original otherwise
Base ==
    IF exists_file(io.fs0, io.new_file_path)
    THEN io.fs0.files[io.new_file_path]
    ELSE io.fs0.files[io.original_file_path]

(* C14: after update_fits(original_file_path, new_file_path) completes with *)
(* two distinct paths the original file is unchanged, the original was      *)
(* copied to the new path only if nothing existed there, and the            *)
(* destination equals that base in every header-data-unit but the one       *)
(* numbered exposure_info.hdu, whose data is the array in its original      *)
(* orientation.                                                             *)
C14_UpdateFitsReplacesOneExtension ==
    (At_pc("done") /\ io.original_file_path # io.new_file_path) =>
        LET hdu == io.self.exposure_info.hdu
            new == fs.files[io.new_file_path]
        IN  /\ fs.files[io.original_file_path]
                   = io.fs0.files[io.original_file_path]
            /\ new # NoFile
            /\ DOMAIN new.hdus = DOMAIN Base.hdus
            /\ \A h \in DOMAIN new.hdus : h # hdu => new.hdus[h] = Base.hdus[h]
            /\ new.hdus[hdu].data
                   = original_orientation_from(io.self.layout, io.self)

\* completed on a destination that existed, the array of a right quadrant
\* written turned back
C14_Witness ==
    /\ At_pc("done")
    /\ io.original_file_path = Path("in", "j.fits")
    /\ io.new_file_path = Path("out", "j.fits")
    /\ exists_file(io.fs0, io.new_file_path)
    /\ exists_file(io.fs0, io.original_file_path)
    /\ io.self.exposure_info.hdu = 4
    /\ fs.files[io.new_file_path].hdus[4].data.data = <<8, 7>>
    /\ fs.files[io.new_file_path].hdus[1].data.data = <<20, 1>>

\* the overwrite guard of one file: the file may be written where nothing
\* is, or over what is there when overwrite is true
Writable(f, file_path, overwrite) ==
    /\ file_path.dir = "" \/ exists_dir(f, file_path.dir)
    /\ overwrite \/ ~exists_file(f, file_path)

\* the component of this name is asked for: its path is given and the
\* dataset has it
Asked(component, path) ==
    /\ path # PyNone
    /\ component = "noise_map" => io.self.noise_map # PyNone
    /\ component = "uv_wavelengths" => io.self.uv_wavelengths # PyNone

(* C15: Interferometer.output_to_fits treats the three components          *)
(* independently: each is written iff its path is given (and the component *)
(* is present) and the overwrite guard of its own file lets it, whatever    *)
(* the paths of the other components and whatever files exist there.        *)
C15_ComponentsWrittenIndependently ==
    (io # NoCall /\ io.op = "output_to_fits") =>
        /\ "visibilities" \in io.wrote <=>
              /\ Asked("visibilities", io.visibilities_path)
              /\ Writable(io.fs0, io.visibilities_path, io.overwrite)
        /\ "noise_map" \in io.wrote <=>
              /\ Asked("noise_map", io.noise_map_path)
              /\ Writable(io.fs0, io.noise_map_path, io.overwrite)
        /\ "uv_wavelengths" \in io.wrote <=>
              /\ Asked("uv_wavelengths", io.uv_wavelengths_path)
              /\ Writable(io.fs0, io.uv_wavelengths_path, io.overwrite)

(* C16: a Mask serialised with __reduce__ and restored with __setstate__   *)
(* is a Mask of the same boolean pattern and shape and of the same          *)
(* sub_size, pixel_scales and origin as the original, whatever they are.    *)
C16_PickleKeepsMaskAndMetadata ==
    restored # NoCall =>
        /\ restored.obj.cls = "Mask"
        /\ restored.obj.arr = made.out.obj.arr
        /\ restored.obj.sub_size = made.out.obj.sub_size
        /\ restored.obj.pixel_scales = made.out.obj.pixel_scales
        /\ restored.obj.origin = made.out.obj.origin

\* a mask of two pixels, one of them masked, none of its metadata a default
C16_Witness ==
    /\ restored # NoCall
    /\ restored.obj.arr.data = <<TRUE, FALSE>>
    /\ restored.obj.sub_size = 2
    /\ restored.obj.pixel_scales = PyTuple(1, 2)
    /\ restored.obj.origin = <<1, 2>>

-----------------------------------------------------------------------------
(* autoarray/plot/wrap_mat/wrap_mat.py: the objects that wrap matplotlib.  *)
(* Floats are counted in units of 1e-4, so that 1.0 is 10000 and the floor  *)
(* of the logarithmic normalisation is 1.                                   *)

\* 1.0e-4, the vmin a logarithmic normalisation gets in place of 0
LogFloor == 1

StrLinear == <<"l", "i", "n", "e", "a", "r">>
StrLog == <<"l", "o", "g">>
StrSymmetricLog == <<"s", "y", "m", "m", "e", "t", "r", "i", "c", "_", "l", "o", "g">>

PyList(items) == [t |-> "list", items |-> items]

\* {**config_dict, **kwargs}
Merged(config_dict, kwargs) ==
    [key \in DOMAIN config_dict \cup DOMAIN kwargs |->
        IF key \in DOMAIN kwargs THEN kwargs[key] ELSE config_dict[key]]

\* AbstractWrapMat.__init__: the settings of the configuration file, those
\* given by keyword in their place
AbstractWrapMat_init(cls, config_dict, from_subplot_config, kwargs) ==
    [cls |-> cls, from_subplot_config |-> from_subplot_config,
     kwargs |-> Merged(config_dict, kwargs)]

\* matplotlib.pyplot: the numbers of the figures open and the current one
\* (0: none), with the last operation of a Figure and the figures before it
Pyplot(figs, current, op, was) == [figs |-> figs, current |-> current, op |-> op, was |-> was]

Highest(nums) == IF nums = {} THEN 0 ELSE CHOOSE n \in nums : \A k \in nums : k <= n

plt_fignum_exists(p, num) == num \in p.figs

\* plt.figure(): a new figure of the next free number, made current
plt_figure(p) ==
    LET num == Highest(p.figs) + 1
    IN  [p EXCEPT !.figs = @ \cup {num}, !.current = num]

\* plt.close(): the current figure closed
plt_close(p) ==
    [p EXCEPT !.figs = @ \ {p.current},
              !.current = Highest(p.figs \ {p.current})]

\* Figure.open creating a figure whether or not figure 1 exists
Figure_open_unguarded(p) == plt_figure(p)

\* Figure.open
Figure_open(p) == IF ~plt_fignum_exists(p, 1) THEN plt_figure(p) ELSE p

\* Figure.close
Figure_close(p) == IF plt_fignum_exists(p, 1) THEN plt_close(p) ELSE p

\* Colorbar.__init__
Colorbar_init(config_dict, manual_tick_labels, manual_tick_values, from_subplot_config, kwargs) ==
    LET self == AbstractWrapMat_init("Colorbar", config_dict, from_subplot_config, kwargs)
    IN  Return([cls |-> self.cls,
                from_subplot_config |-> self.from_subplot_config,
                kwargs |-> self.kwargs,
                manual_tick_labels |-> manual_tick_labels,
                manual_tick_values |-> manual_tick_values])

\* Cmap.__init__ called without a module: the colormap named is taken from
\* colorcet when colorcet has it
Cmap_init(config_dict, from_subplot_config, kwargs) ==
    LET self == AbstractWrapMat_init("Cmap", config_dict, from_subplot_config, kwargs)
        cmap == self.kwargs.cmap
    IN  [self EXCEPT !.kwargs.cmap =
            IF cmap = PyStr("fire") THEN [t |-> "colorcet", v |-> "fire"] ELSE cmap]

\* array.min() and array.max()
array_min(array) ==
    CHOOSE x \in {array.data[i] : i \in DOMAIN array.data} :
        \A i \in DOMAIN array.data : x <= array.data[i]

array_max(array) ==
    CHOOSE x \in {array.data[i] : i \in DOMAIN array.data} :
        \A i \in DOMAIN array.data : x >= array.data[i]

\* vmin and vmax as norm_from_array takes them: given, or of the array
vmin_of(self, array) ==
    IF self.kwargs.vmin = PyNone THEN array_min(array) ELSE self.kwargs.vmin.v

vmax_of(self, array) ==
    IF self.kwargs.vmax = PyNone THEN array_max(array) ELSE self.kwargs.vmax.v

\* Cmap.norm_from_array handing vmin to LogNorm as it is
Cmap_norm_from_array_without_floor(self, array) ==
    LET vmin == vmin_of(self, array)
        vmax == vmax_of(self, array)
    IN  IF str_in(self.kwargs.norm, StrLinear)
        THEN Return([cls |-> "Normalize", vmin |-> vmin, vmax |-> vmax])
        ELSE IF str_in(self.kwargs.norm, StrLog)
        THEN Return([cls |-> "LogNorm", vmin |-> vmin, vmax |-> vmax])
        ELSE IF str_in(self.kwargs.norm, StrSymmetricLog)
        THEN Return([cls |-> "SymLogNorm", vmin |-> vmin, vmax |-> vmax,
                     linthresh |-> self.kwargs.linthresh,
                     linscale |-> self.kwargs.linscale])
        ELSE Raise("PlottingException")

\* Cmap.norm_from_array: `in` is Python's substring test
Cmap_norm_from_array(self, array) ==
    LET vmin == vmin_of(self, array)
        vmax == vmax_of(self, array)
    IN  IF str_in(self.kwargs.norm, StrLinear)
        THEN Return([cls |-> "Normalize", vmin |-> vmin, vmax |-> vmax])
        ELSE IF str_in(self.kwargs.norm, StrLog)
        THEN Return([cls |-> "LogNorm",
                     vmin |-> IF vmin = 0 THEN LogFloor ELSE vmin,
                     vmax |-> vmax])
        ELSE IF str_in(self.kwargs.norm, StrSymmetricLog)
        THEN Return([cls |-> "SymLogNorm", vmin |-> vmin, vmax |-> vmax,
                     linthresh |-> self.kwargs.linthresh,
                     linscale |-> self.kwargs.linscale])
        ELSE Raise("PlottingException")

\* the settings of the configuration files
ColorbarConfig == [fraction |-> PyFloat(470), pad |-> PyFloat(100)]

CmapConfig ==
    [cmap |-> PyStr("jet"), norm |-> StrLinear, vmin |-> PyNone, vmax |-> PyNone,
     linthresh |-> PyFloat(500), linscale |-> PyFloat(100)]

\* the names a caller may give for the normalisation
NormNames ==
    {StrLinear, StrLog, StrSymmetricLog, <<>>, <<"l", "i", "n">>, <<"l", "o">>,
     <<"s", "y", "m", "m", "e", "t", "r", "i", "c">>, <<"o", "g">>,
     <<"s", "q", "r", "t">>, <<"L", "O", "G">>,
     <<"l", "i", "n", "e", "a", "r", "_">>, <<"l", "o", "g", "1", "0">>}

Limits == {PyNone, PyFloat(0), PyFloat(10000), PyFloat(0 - 5000)}

PlottedArrays ==
    {Array("float", <<1, 2>>, <<a, b>>) : a, b \in {0 - 5000, 0, 10000, 20000}}

TickLists == {PyNone, PyList(<<1, 2>>)}

PlotCall(op, args, out) == [kind |-> "call", op |-> op, args |-> args, out |-> out]

FigureOpen ==
    /\ plt' = [Figure_open(plt) EXCEPT !.op = "open", !.was = plt.figs]
    /\ UNCHANGED <<pcall, fitsVars, maskNewVars, maskVars, transformerVars, heapVars, datasetVars, simVars, acsVars>>

FigureClose ==
    /\ plt' = [Figure_close(plt) EXCEPT !.op = "close", !.was = plt.figs]
    /\ UNCHANGED <<pcall, fitsVars, maskNewVars, maskVars, transformerVars, heapVars, datasetVars, simVars, acsVars>>

NewColorbar ==
    /\ pcall = NoCall
    /\ \E manual_tick_labels \in TickLists, manual_tick_values \in TickLists,
          from_subplot_config \in BOOLEAN :
          pcall' = PlotCall("Colorbar",
                            [manual_tick_labels |-> manual_tick_labels,
                             manual_tick_values |-> manual_tick_values],
                            Colorbar_init(ColorbarConfig, manual_tick_labels,
                                          manual_tick_values, from_subplot_config,
                                          [pad |-> PyFloat(200)]))
    /\ UNCHANGED <<plt, fitsVars, maskNewVars, maskVars, transformerVars, heapVars, datasetVars, simVars, acsVars>>

\* a Cmap is made with the settings given and asked for the normalisation
\* of an array
NormFromArray ==
    /\ pcall = NoCall
    /\ \E vmin \in Limits, vmax \in Limits, norm \in NormNames, array \in PlottedArrays :
          LET self == Cmap_init(CmapConfig, FALSE,
                                [vmin |-> vmin, vmax |-> vmax, norm |-> norm])
          IN  pcall' = PlotCall("norm_from_array",
                                [self |-> self, array |-> array],
                                Cmap_norm_from_array(self, array))
    /\ UNCHANGED <<plt, fitsVars, maskNewVars, maskVars, transformerVars, heapVars, datasetVars, simVars, acsVars>>

\* ------------------------------------------------------------------------
\* Units and the labels of the axes
\* ------------------------------------------------------------------------

PyBool(b) == [t |-> "bool", v |-> b]

\* the truth value Python gives None and a bool
Truthy(x) == x # PyNone /\ x.v

\* Units.__init__: use_scaled and in_kpc of the configuration file where
\* none is given; config holds None for an entry the file does not have
Units_init(config, use_scaled, conversion_factor, in_kpc) ==
    [cls |-> "Units",
     use_scaled |-> IF use_scaled # PyNone THEN use_scaled
                    ELSE IF config.use_scaled # PyNone THEN config.use_scaled
                    ELSE PyBool(TRUE),
     conversion_factor |-> conversion_factor,
     in_kpc |-> IF in_kpc # PyNone THEN in_kpc ELSE config.in_kpc]

\* AbstractLabel.__init__, of the class cls
AbstractLabel_init(cls, config_dict, units, manual_label, from_subplot_config, kwargs) ==
    LET self == AbstractWrapMat_init(cls, config_dict, from_subplot_config, kwargs)
    IN  [cls |-> self.cls, from_subplot_config |-> self.from_subplot_config,
         kwargs |-> self.kwargs, manual_label |-> manual_label, _units |-> units]

\* YLabel.sub
YLabel_sub(config_dict, units, manual_label) ==
    AbstractLabel_init("YLabel", config_dict, units, manual_label, TRUE, <<>>)

\* XLabel.sub: the object it returns is made by YLabel(...)
XLabel_sub(config_dict, units, manual_label) ==
    AbstractLabel_init("YLabel", config_dict, units, manual_label, TRUE, <<>>)

\* AbstractLabel.label_from_units
label_from_units(self, units) ==
    IF self._units = PyNone
    THEN IF units.in_kpc # PyNone
         THEN IF Truthy(units.in_kpc) THEN "kpc" ELSE "arcsec"
         ELSE IF Truthy(units.use_scaled) THEN "scaled" ELSE "pixels"
    ELSE self._units.v

\* YLabel.set: plt.ylabel on the current axes
YLabel_set(axes, self, units, include_brackets) ==
    [axes EXCEPT !.ylabel =
        IF self.manual_label # PyNone
        THEN self.manual_label.v
        ELSE IF include_brackets
             THEN "y (" \o label_from_units(self, units) \o ")"
             ELSE label_from_units(self, units)]

\* XLabel.set: plt.xlabel on the current axes
XLabel_set(axes, self, units, include_brackets) ==
    [axes EXCEPT !.xlabel =
        IF self.manual_label # PyNone
        THEN self.manual_label.v
        ELSE IF include_brackets
             THEN "x (" \o label_from_units(self, units) \o ")"
             ELSE label_from_units(self, units)]

\* label.set(...): the method of the class of the object
Label_set(axes, self, units, include_brackets) ==
    IF self.cls = "YLabel"
    THEN YLabel_set(axes, self, units, include_brackets)
    ELSE XLabel_set(axes, self, units, include_brackets)

LabelConfig == [fontsize |-> PyInt(16)]

UnitsConfigs ==
    [use_scaled : {PyNone, PyBool(TRUE)}, in_kpc : {PyNone, PyBool(FALSE)}]

UnitsObjects ==
    {Units_init(config, use_scaled, conversion_factor, in_kpc) :
        config \in UnitsConfigs,
        use_scaled \in {PyNone, PyBool(TRUE), PyBool(FALSE)},
        conversion_factor \in {PyNone, PyFloat(2)},
        in_kpc \in {PyNone, PyBool(TRUE), PyBool(FALSE)}}

\* the labels the current axes may carry before the call
Axes == [ylabel : {"", "y (old)"}, xlabel : {"", "x (old)"}]

\* a label of the class named (axis "y": YLabel, "x": XLabel), made by the
\* constructor or by sub(), is set on the axes of the open figure
LabelSet ==
    /\ pcall = NoCall
    /\ plt_fignum_exists(plt, 1)
    /\ \E axis \in {"y", "x"}, from_sub \in BOOLEAN,
          label_units \in {PyNone, PyStr("mm")},
          manual_label \in {PyNone, PyStr("flux")},
          units \in UnitsObjects, include_brackets \in BOOLEAN, axes \in Axes :
          LET self ==
                  IF from_sub
                  THEN IF axis = "y"
                       THEN YLabel_sub(LabelConfig, label_units, manual_label)
                       ELSE XLabel_sub(LabelConfig, label_units, manual_label)
                  ELSE AbstractLabel_init(
                           IF axis = "y" THEN "YLabel" ELSE "XLabel",
                           LabelConfig, label_units, manual_label, FALSE, <<>>)
          IN  pcall' = PlotCall("Label.set",
                                [axis |-> axis, from_sub |-> from_sub,
                                 self |-> self, units |-> units,
                                 include_brackets |-> include_brackets,
                                 axes |-> axes],
                                Value(Label_set(axes, self, units, include_brackets)))
    /\ UNCHANGED <<plt, fitsVars, maskNewVars, maskVars, transformerVars, heapVars, datasetVars, simVars, acsVars>>

\* ------------------------------------------------------------------------
\* Figure.aspect_from_shape_2d and Output.filename_from_func
\* ------------------------------------------------------------------------

StrSquare == <<"s", "q", "u", "a", "r", "e">>

\* a str held character by character, for the substring test
PyChars(s) == [t |-> "str", v |-> s]

\* Figure.__init__
Figure_init(config_dict, from_subplot_config, kwargs) ==
    AbstractWrapMat_init("Figure", config_dict, from_subplot_config, kwargs)

\* Figure.aspect_from_shape_2d: shape_2d[1] over shape_2d[0], the second
\* entry of the shape over the first
aspect_from_shape_2d(self, shape_2d) ==
    IF self.kwargs.aspect.t = "str" /\ str_in(self.kwargs.aspect.v, StrSquare)
    THEN Value(Reduced(Divide(shape_2d[2], shape_2d[1])))
    ELSE Value(self.kwargs.aspect)

\* Output.__init__: the directory of the path is made if there is none;
\* dirs are the directories there are
Output_init(dirs, path, filename, format, bypass) ==
    [self |-> [cls |-> "Output", path |-> path, filename |-> filename,
               _format |-> format, bypass |-> bypass],
     dirs |-> IF path # PyNone /\ path.v # "" THEN dirs \cup {path.v} ELSE dirs]

\* Output.filename_from_func taking an empty filename for none
filename_from_func_if_not_filename(self, func) ==
    [ret |-> IF self.filename = PyNone \/ self.filename.v = ""
             THEN PyStr(func.name) ELSE self.filename,
     self |-> self]

\* Output.filename_from_func: what it returns and the object after the call
filename_from_func(self, func) ==
    [ret |-> IF self.filename = PyNone THEN PyStr(func.name) ELSE self.filename,
     self |-> self]

FigureConfig == [aspect |-> PyChars(StrSquare), figsize |-> PyChars(<<"a", "u", "t", "o">>)]

Aspects ==
    {PyChars(StrSquare), PyChars(<<"a", "u", "t", "o">>),
     PyChars(<<"e", "q", "u", "a", "l">>), PyChars(<<>>), PyChars(<<"s">>),
     PyChars(<<"s", "q", "u", "a", "r", "e", "d">>), PyFloat(1), PyFloat(2)}

PlottedShapes == (1..4) \X (1..4)

AspectFromShape2D ==
    /\ pcall = NoCall
    /\ \E aspect \in Aspects, shape_2d \in PlottedShapes, given \in BOOLEAN :
          LET self == Figure_init(FigureConfig, FALSE,
                                  IF given THEN [aspect |-> aspect] ELSE <<>>)
          IN  pcall' = PlotCall("aspect_from_shape_2d",
                                [self |-> self, shape_2d |-> shape_2d],
                                aspect_from_shape_2d(self, shape_2d))
    /\ UNCHANGED <<plt, fitsVars, maskNewVars, maskVars, transformerVars, heapVars, datasetVars, simVars, acsVars>>

\* the plotting functions whose name may become the file name
PlotFunctions ==
    {[t |-> "function", name |-> n] : n \in {"plot_array", "subplot_imaging", "file"}}

FilenameFromFunc ==
    /\ pcall = NoCall
    /\ \E path \in {PyNone, PyStr(""), PyStr("out")},
          filename \in {PyNone, PyStr(""), PyStr("file"), PyStr("plot_array")},
          format \in {PyNone, PyStr("png")}, bypass \in BOOLEAN,
          dirs \in SUBSET {"out"}, func \in PlotFunctions :
          LET made_ == Output_init(dirs, path, filename, format, bypass)
          IN  pcall' = PlotCall("filename_from_func",
                                [self |-> made_.self, dirs |-> made_.dirs,
                                 filename |-> filename, func |-> func],
                                Value(filename_from_func(made_.self, func)))
    /\ UNCHANGED <<plt, fitsVars, maskNewVars, maskVars, transformerVars, heapVars, datasetVars, simVars, acsVars>>

-----------------------------------------------------------------------------
(* Colorbar.set and Colorbar.set_with_values (wrap_mat.py)                  *)

\* AbstractWrapMat.kwargs_of_method: the settings of the object among the
\* arguments the configuration lists for the method
kwargs_of_method(self, args) ==
    [key \in (DOMAIN self.kwargs) \cap args |-> self.kwargs[key]]

\* the arguments the configuration lists for plt.colorbar and for
\* tick_params
ColorbarArgs == {"fraction", "pad"}

TickParamsArgs == {"labelsize"}

\* a colorbar drawn by plt.colorbar, with what was then done to its axis
DrawnColorbar(mappable, ticks, kwargs, yticklabels, tick_params) ==
    [mappable |-> mappable, ticks |-> ticks, kwargs |-> kwargs,
     yticklabels |-> yticklabels, tick_params |-> tick_params]

\* the end of a drawing call: the colorbars it drew and the exception it
\* raised, if any
Drew(colorbars, exc) == [kind |-> "drew", colorbars |-> colorbars, exc |-> exc]

\* Colorbar.set
Colorbar_set(self) ==
    IF self.manual_tick_values = PyNone /\ self.manual_tick_labels = PyNone
    THEN Drew(<<DrawnColorbar(PyNone, PyNone,
                              kwargs_of_method(self, ColorbarArgs), PyNone,
                              kwargs_of_method(self, TickParamsArgs))>>, "none")
    ELSE IF self.manual_tick_values # PyNone /\ self.manual_tick_labels # PyNone
    THEN Drew(<<DrawnColorbar(PyNone, self.manual_tick_values,
                              kwargs_of_method(self, ColorbarArgs),
                              self.manual_tick_labels,
                              kwargs_of_method(self, TickParamsArgs))>>, "none")
    ELSE Drew(<<>>, "PlottingException")

\* Colorbar.set_with_values: cax is the ScalarMappable of the colormap
\* holding the values
Colorbar_set_with_values(self, cmap, color_values) ==
    LET cax == [cmap |-> cmap, array |-> color_values] IN
    IF self.manual_tick_values = PyNone /\ self.manual_tick_labels = PyNone
    THEN Drew(<<DrawnColorbar(cax, PyNone,
                              kwargs_of_method(self, ColorbarArgs), PyNone,
                              PyNone)>>, "none")
    ELSE IF self.manual_tick_values # PyNone /\ self.manual_tick_labels # PyNone
    THEN Drew(<<DrawnColorbar(cax, self.manual_tick_values, self.kwargs,
                              self.manual_tick_labels, PyNone)>>, "none")
    ELSE Drew(<<>>, "none")

\* the tick positions and the tick labels a Colorbar is given
ManualTickValues == {PyNone, PyList(<<0, 1>>)}

ManualTickLabels == {PyNone, PyList(<<10, 20>>)}

\* a Colorbar is made and one of its two drawing operations is called
ColorbarSet ==
    /\ pcall = NoCall
    /\ \E manual_tick_labels \in ManualTickLabels,
          manual_tick_values \in ManualTickValues,
          from_subplot_config \in BOOLEAN,
          method \in {"set", "set_with_values"},
          color_values \in PlottedArrays :
          LET self == Colorbar_init(ColorbarConfig, manual_tick_labels,
                                    manual_tick_values, from_subplot_config,
                                    [labelsize |-> PyInt(10)]).obj
          IN  pcall' = PlotCall("Colorbar." \o method,
                                [self |-> self, color_values |-> color_values],
                                IF method = "set"
                                THEN Colorbar_set(self)
                                ELSE Colorbar_set_with_values(self, "jet", color_values))
    /\ UNCHANGED <<plt, fitsVars, maskNewVars, maskVars, transformerVars, heapVars, datasetVars, simVars, acsVars>>

-----------------------------------------------------------------------------
(* AbstractTicks.tick_values_in_units_from (wrap_mat.py)                    *)
(* Coordinates are counted in hundredths, so that rounding to 2 decimals    *)
(* is rounding to a whole number; the pixel indexes and the conversion      *)
(* factor are whole numbers.                                                *)

NumTicks == 5

\* a numpy array of one dimension
NdArray(dtype, items) == [dtype |-> dtype, items |-> items]

\* np.asarray of a list of whole numbers
np_asarray(list) == NdArray("int", list.items)

\* the quarters of np.linspace(start, stop, 5): entry i is q[i] / 4
linspace_quarters(start, stop) ==
    [i \in 1..NumTicks |-> 4 * start + (i - 1) * (stop - start)]

\* .astype("int") of a value of n quarters: the fraction is cut off
astype_int(n) == IF n >= 0 THEN n \div 4 ELSE 0 - ((0 - n) \div 4)

\* np.round of a value of n quarters to a whole number, a half going to the
\* even neighbour
np_round(n) ==
    LET q == n \div 4
        r == n % 4
    IN  IF r < 2 THEN q
        ELSE IF r > 2 THEN q + 1
        ELSE IF q % 2 = 0 THEN q ELSE q + 1

\* AbstractTicks.__init__
AbstractTicks_init(cls, config_dict, manual_values, from_subplot_config, kwargs) ==
    LET self == AbstractWrapMat_init(cls, config_dict, from_subplot_config, kwargs)
    IN  [cls |-> self.cls, from_subplot_config |-> self.from_subplot_config,
         kwargs |-> self.kwargs, manual_values |-> manual_values]

\* AbstractTicks.tick_values_in_units_from
tick_values_in_units_from(self, array, min_value, max_value, units, use_defaults) ==
    IF use_defaults
    THEN Value(PyNone)
    ELSE IF self.manual_values # PyNone
    THEN Value(np_asarray(self.manual_values))
    ELSE IF ~Truthy(units.use_scaled)
    THEN Value(NdArray("int",
             [i \in 1..NumTicks |->
                 astype_int(linspace_quarters(0, array.shape_2d[1])[i])]))
    ELSE IF (Truthy(units.use_scaled) /\ units.conversion_factor = PyNone)
            \/ ~Truthy(units.in_kpc)
    THEN Value(NdArray("float",
             [i \in 1..NumTicks |->
                 np_round(linspace_quarters(min_value, max_value)[i])]))
    ELSE IF Truthy(units.use_scaled) /\ units.conversion_factor # PyNone
    THEN Value(NdArray("float",
             [i \in 1..NumTicks |->
                 np_round(linspace_quarters(min_value * units.conversion_factor.v,
                                            max_value * units.conversion_factor.v)[i])]))
    ELSE Raise("PlottingException")

TicksConfig == [labelsize |-> PyInt(16)]

\* the ends of the axis, in hundredths
TickExtents == {<<0, 400>>, <<0 - 150, 251>>, <<3, 5>>}

\* a Ticks object is made and asked for the labels of an axis
TickValuesInUnitsFrom ==
    /\ pcall = NoCall
    /\ \E manual_values \in TickLists, units \in UnitsObjects,
          shape_2d \in PlottedShapes, extent \in TickExtents,
          use_defaults \in BOOLEAN :
          LET self == AbstractTicks_init("YTicks", TicksConfig, manual_values,
                                         FALSE, <<>>)
              array == [shape_2d |-> shape_2d]
          IN  pcall' = PlotCall("tick_values_in_units_from",
                                [self |-> self, array |-> array,
                                 min_value |-> extent[1], max_value |-> extent[2],
                                 units |-> units, use_defaults |-> use_defaults],
                                tick_values_in_units_from(self, array, extent[1],
                                                          extent[2], units,
                                                          use_defaults))
    /\ UNCHANGED <<plt, fitsVars, maskNewVars, maskVars, transformerVars, heapVars, datasetVars, simVars, acsVars>>

InitPlot ==
    /\ made = NoCall
    /\ got = NoCall /\ restored = NoCall
    /\ m = NoObj /\ m0 = NoObj /\ d = NoObj /\ dop = "none" /\ nops = 0 /\ trimmed = NoCall
    /\ tf = NoObj /\ vis = NoCall
    /\ heap = <<>> /\ calls = <<>>
    /\ ifm = 0 /\ mi = 0 /\ snap = NoObj /\ cp = NoCall /\ touched = FALSE
    /\ sim = 0 /\ simcall = NoCall
    /\ acs = NoCall
    /\ fs = NoObj /\ io = NoCall
    /\ plt = Pyplot({}, 0, "none", {}) /\ pcall = NoCall

NextPlot ==
    \/ FigureOpen
    \/ FigureClose
    \/ NewColorbar
    \/ NormFromArray
    \/ LabelSet
    \/ AspectFromShape2D
    \/ FilenameFromFunc
    \/ ColorbarSet
    \/ TickValuesInUnitsFrom

SpecPlot == InitPlot /\ [][NextPlot]_vars

(* C17: starting with no figure and using only Figure.open() and            *)
(* Figure.close(), at most one figure is ever open; figure 1 exists after   *)
(* every open() and not after any close(); open() while figure 1 exists     *)
(* makes no further figure and close() while there is none does nothing.    *)
C17_AtMostFigureOne ==
    /\ Cardinality(plt.figs) <= 1
    /\ plt.op = "open" =>
          /\ plt_fignum_exists(plt, 1)
          /\ 1 \in plt.was => plt.figs = plt.was
    /\ plt.op = "close" =>
          /\ ~plt_fignum_exists(plt, 1)
          /\ plt.was = {} => plt.figs = {}

\* open() called while figure 1 was open
C17_Witness ==
    /\ plt.op = "open"
    /\ plt.was = {1}
    /\ plt.figs = {1}

(* C18: constructing a Colorbar with exactly one of manual_tick_values and  *)
(* manual_tick_labels raises PlottingException, so that no Colorbar with    *)
(* one of them and not the other exists.                                    *)
C18_HalfConfiguredColorbarRaises ==
    (/\ pcall # NoCall
     /\ pcall.op = "Colorbar"
     /\ (pcall.args.manual_tick_values = PyNone)
            # (pcall.args.manual_tick_labels = PyNone))
    => pcall.out = Raise("PlottingException")

(* C19: norm_from_array returns the linear, the logarithmic and the         *)
(* symmetric logarithmic normalisation for the names "linear", "log" and    *)
(* "symmetric_log" and raises PlottingException for every other name, the   *)
(* empty one and the fragments of the three included.                       *)
C19_OnlyTheThreeNamesSelect ==
    (pcall # NoCall /\ pcall.op = "norm_from_array") =>
        LET norm == pcall.args.self.kwargs.norm IN
        /\ norm = StrLinear => pcall.out.obj.cls = "Normalize"
        /\ norm = StrLog => pcall.out.obj.cls = "LogNorm"
        /\ norm = StrSymmetricLog => pcall.out.obj.cls = "SymLogNorm"
        /\ norm \notin {StrLinear, StrLog, StrSymmetricLog} =>
              pcall.out = Raise("PlottingException")

(* C20: the normalisation returned has the vmax given, or the maximum of    *)
(* the array when none is given, and likewise the vmin, but that under the  *)
(* logarithmic normalisation a vmin of 0, given or of the array, is 1e-4;   *)
(* the linear and the symmetric logarithmic one keep a vmin of 0.           *)
C20_LimitsAndLogFloor ==
    (pcall # NoCall /\ pcall.op = "norm_from_array" /\ pcall.out.kind = "return") =>
        LET self == pcall.args.self
            array == pcall.args.array
            vmin == IF self.kwargs.vmin # PyNone
                    THEN self.kwargs.vmin.v ELSE array_min(array)
            vmax == IF self.kwargs.vmax # PyNone
                    THEN self.kwargs.vmax.v ELSE array_max(array)
        IN  /\ pcall.out.obj.vmax = vmax
            /\ pcall.out.obj.vmin =
                   IF pcall.out.obj.cls = "LogNorm" /\ vmin = 0
                   THEN LogFloor ELSE vmin

\* logarithmic, no vmin given, the smallest entry of the array 0
C20_Witness ==
    /\ pcall # NoCall /\ pcall.op = "norm_from_array"
    /\ pcall.args.self.kwargs.norm = StrLog
    /\ pcall.args.self.kwargs.vmin = PyNone
    /\ pcall.args.array.data = <<10000, 0>>
    /\ pcall.out = Return([cls |-> "LogNorm", vmin |-> LogFloor, vmax |-> 10000])

\* the unit a label names: its own, or the one of the units of the plot
UnitNamed ==
    LET self == pcall.args.self
        units == pcall.args.units
    IN  IF self._units # PyNone THEN self._units.v
        ELSE IF units.in_kpc = PyBool(TRUE) THEN "kpc"
        ELSE IF units.in_kpc = PyBool(FALSE) THEN "arcsec"
        ELSE IF units.use_scaled = PyBool(TRUE) THEN "scaled"
        ELSE "pixels"

\* the text the claim gives the label of the axis
LabelClaimed(axis) ==
    IF pcall.args.self.manual_label # PyNone
    THEN pcall.args.self.manual_label.v
    ELSE axis \o " (" \o UnitNamed \o ")"

(* C21: for labels made by the constructors and by sub() alike, YLabel.set  *)
(* sets the label of the y axis and XLabel.set that of the x axis, the      *)
(* other axis keeping its label; the text is the manual label when there is *)
(* one and otherwise, with brackets, "y (<unit>)" or "x (<unit>)", the unit *)
(* the label's own or kpc, arcsec, scaled or pixels by the units given.     *)
C21_LabelOfItsOwnAxis ==
    (/\ pcall # NoCall
     /\ pcall.op = "Label.set"
     /\ pcall.args.self.manual_label # PyNone \/ pcall.args.include_brackets)
    => IF pcall.args.axis = "y"
       THEN /\ pcall.out.v.ylabel = LabelClaimed("y")
            /\ pcall.out.v.xlabel = pcall.args.axes.xlabel
       ELSE /\ pcall.out.v.xlabel = LabelClaimed("x")
            /\ pcall.out.v.ylabel = pcall.args.axes.ylabel

(* C22: Figure.aspect_from_shape_2d returns the aspect of the settings as   *)
(* it is unless that is "square", and then, for shape_2d = (height, width), *)
(* it returns height / width.                                               *)
C22_SquareAspectIsHeightOverWidth ==
    (pcall # NoCall /\ pcall.op = "aspect_from_shape_2d") =>
        LET aspect == pcall.args.self.kwargs.aspect
            height == pcall.args.shape_2d[1]
            width == pcall.args.shape_2d[2]
        IN  IF aspect = PyChars(StrSquare)
            THEN pcall.out = Value(Reduced(Divide(height, width)))
            ELSE pcall.out = Value(aspect)

(* C23: Output.filename_from_func(func) returns the name of func when the   *)
(* Output was made without a filename and the filename given, whatever the  *)
(* function, when it was made with one; the Output keeps the filename it    *)
(* was made with.                                                           *)
C23_FilenameOrNameOfFunction ==
    (pcall # NoCall /\ pcall.op = "filename_from_func") =>
        /\ pcall.out.v.ret =
               IF pcall.args.filename = PyNone
               THEN PyStr(pcall.args.func.name)
               ELSE pcall.args.filename
        /\ pcall.out.v.self = pcall.args.self
        /\ pcall.out.v.self.filename = pcall.args.filename

\* an Output made with the empty filename, asked by plot_array
C23_Witness ==
    /\ pcall # NoCall /\ pcall.op = "filename_from_func"
    /\ pcall.args.filename = PyStr("")
    /\ pcall.args.func.name = "plot_array"
    /\ pcall.out.v.ret = PyStr("")

-----------------------------------------------------------------------------
(* Mask.trimmed_array_from_padded_array_and_image_shape (mask.py)           *)

\* arrays.Array.manual_2d
Array_manual_2d(array, pixel_scales, sub_size, origin) ==
    [cls |-> "Array", arr |-> array, pixel_scales |-> pixel_scales,
     sub_size |-> sub_size, origin |-> origin]

\* padded_array.in_2d_binned: the values of the array as a 2D image
in_2d_binned(padded_array) == padded_array.arr

\* Mask.trimmed_array_from_padded_array_and_image_shape; // is \div, the
\* quotient rounded down
trimmed_array_from_padded_array_and_image_shape(self, padded_array, image_shape) ==
    LET pad_size_0 == self.arr.shape[1] - image_shape[1]
        pad_size_1 == self.arr.shape[2] - image_shape[2]
        trimmed_array ==
            Slice2D(in_2d_binned(padded_array),
                    pad_size_0 \div 2, self.arr.shape[1] - pad_size_0 \div 2,
                    pad_size_1 \div 2, self.arr.shape[2] - pad_size_1 \div 2)
    IN  Array_manual_2d(trimmed_array, self.pixel_scales, 1, self.origin)

\* a result computed on the padded grid of the mask: one value to the pixel,
\* each its own
PaddedArray(self) ==
    Array_manual_2d(
        Array("float", self.arr.shape, [i \in 1..Prod(self.arr.shape) |-> i]),
        self.pixel_scales, 1, self.origin)

\* the shapes of an image no larger than the mask
ImageShapesIn(self) == (1..self.arr.shape[1]) \X (1..self.arr.shape[2])

Trim ==
    /\ m # NoObj
    /\ trimmed = NoCall
    /\ \E image_shape \in ImageShapesIn(m) :
          trimmed' = [kind |-> "call", self |-> m,
                      padded_array |-> PaddedArray(m),
                      image_shape |-> image_shape,
                      out |-> Return(trimmed_array_from_padded_array_and_image_shape(
                                         m, PaddedArray(m), image_shape))]
    /\ UNCHANGED <<fitsVars, plotVars, m, m0, d, dop, nops, maskNewVars, transformerVars, heapVars, datasetVars, simVars, acsVars>>

NextTrim ==
    \/ Obtain
    \/ Trim

SpecTrim == InitMask /\ [][NextTrim]_vars

(* C24: for a mask of the padded shape P and an image_shape I no larger     *)
(* than P on either axis, the array returned has the shape I exactly and is *)
(* made of the rows and columns [d // 2, P - d // 2) of the padded array,   *)
(* d = P - I on each axis, with sub_size 1 and the pixel_scales and origin  *)
(* of the mask.                                                             *)
C24_TrimmedToTheImageShape ==
    trimmed # NoCall =>
        LET P == trimmed.self.arr.shape
            I == trimmed.image_shape
            out == trimmed.out.obj
        IN  /\ out.arr.shape = I
            /\ out.arr = Slice2D(trimmed.padded_array.arr,
                                 (P[1] - I[1]) \div 2, P[1] - (P[1] - I[1]) \div 2,
                                 (P[2] - I[2]) \div 2, P[2] - (P[2] - I[2]) \div 2)
            /\ out.sub_size = 1
            /\ out.pixel_scales = trimmed.self.pixel_scales
            /\ out.origin = trimmed.self.origin


\* the steps of update_fits in the order of its statements
StepsOfUpdateFits ==
    <<"makedirs", "copy", "open", "replace", "header", "remove", "writeto", "done">>

StepNumber(pc) == CHOOSE i \in DOMAIN StepsOfUpdateFits : StepsOfUpdateFits[i] = pc

\* the call has failed in the rewrite, after the destination was deleted
FailedInTheRewrite == At_pc("raised") /\ io.exc = "OSError"

\* what a step of update_fits does to the files: nothing, but for the copy
\* (a destination that was absent appears, equal to the original), the
\* delete (the destination goes) and the rewrite (the destination appears)
FilesStep ==
    \A p \in Paths :
        fs'.files[p] # fs.files[p] =>
            /\ p = io.new_file_path
            /\ \/ io.pc = "copy" /\ fs.files[p] = NoFile
                     /\ fs'.files[p] = fs.files[io.original_file_path]
               \/ io.pc = "remove" /\ fs'.files[p] = NoFile
               \/ io.pc = "writeto" /\ io'.pc = "done" /\ fs.files[p] = NoFile

(* C25: update_fits is not atomic and has no rollback. Its steps run in the *)
(* order create directory, copy if absent, open, replace the data of the    *)
(* extension, read the header, delete the destination, rewrite the          *)
(* destination, each followed by the next or by the error that ends the     *)
(* call; between the delete and the end of the rewrite, and after a failure *)
(* there, the destination file is missing and stays missing, while the      *)
(* original file, when it is another file, is as it was before the call.    *)
C25_NotAtomicNoRollback ==
    /\ []((At_pc("writeto") \/ FailedInTheRewrite) =>
             /\ fs.files[io.new_file_path] = NoFile
             /\ io.original_file_path # io.new_file_path =>
                    fs.files[io.original_file_path]
                        = io.fs0.files[io.original_file_path])
    /\ [][(io # NoCall /\ io.op = "update_fits") =>
             /\ io.pc \notin {"done", "raised"}
             /\ \/ io'.pc = "raised"
                \/ io'.pc = StepsOfUpdateFits[StepNumber(io.pc) + 1]
             /\ FilesStep]_vars

\* the rewrite has failed: the destination that was there before the call
\* is gone and the original still lies where it was
C25_Witness ==
    /\ FailedInTheRewrite
    /\ io.original_file_path = Path("in", "j.fits")
    /\ io.new_file_path = Path("out", "j.fits")
    /\ exists_file(io.fs0, io.new_file_path)
    /\ ~exists_file(fs, io.new_file_path)
    /\ exists_file(fs, io.original_file_path)
    /\ fs.files[io.original_file_path] = io.fs0.files[io.original_file_path]


ColorbarDrawn == pcall # NoCall /\ pcall.op \in {"Colorbar.set", "Colorbar.set_with_values"}

(* C26: a Colorbar holding exactly one of manual_tick_values and            *)
(* manual_tick_labels fails in set() and in set_with_values() alike with    *)
(* PlottingException and draws nothing; holding both or neither, each of    *)
(* the two draws exactly one colorbar, and with both it has the manual tick *)
(* positions and labels.                                                    *)
C26_HalfConfiguredColorbarDrawsNothing ==
    ColorbarDrawn =>
        LET self == pcall.args.self
            out == pcall.out
        IN  IF (self.manual_tick_values = PyNone) # (self.manual_tick_labels = PyNone)
            THEN out.exc = "PlottingException" /\ out.colorbars = <<>>
            ELSE /\ out.exc = "none"
                 /\ Len(out.colorbars) = 1
                 /\ self.manual_tick_values # PyNone =>
                        /\ out.colorbars[1].ticks = self.manual_tick_values
                        /\ out.colorbars[1].yticklabels = self.manual_tick_labels


\* the labels of an axis have been asked for, the defaults not wanted
TicksAsked ==
    /\ pcall # NoCall
    /\ pcall.op = "tick_values_in_units_from"
    /\ ~pcall.args.use_defaults

\* the 5 values from lo to hi, evenly spaced, rounded to 2 decimals
RoundedTicks(lo, hi) ==
    NdArray("float", [i \in 1..NumTicks |-> np_round(linspace_quarters(lo, hi)[i])])

(* C27: with use_defaults false the labels are the manual values when       *)
(* there are any; otherwise, not in scaled units, the 5 whole pixel indexes *)
(* from 0 to the extent of the array; otherwise, use_scaled being true and  *)
(* a conversion_factor given, whatever in_kpc is, the 5 values from         *)
(* min_value * conversion_factor to max_value * conversion_factor rounded   *)
(* to 2 decimals; and only without a conversion_factor the 5 values from    *)
(* min_value to max_value rounded to 2 decimals.                            *)
C27_TickLabelsByUnits ==
    TicksAsked =>
        LET a == pcall.args
            cf == a.units.conversion_factor
        IN  pcall.out =
               IF a.self.manual_values # PyNone
               THEN Value(NdArray("int", a.self.manual_values.items))
               ELSE IF ~Truthy(a.units.use_scaled)
               THEN Value(NdArray("int",
                        [i \in 1..NumTicks |->
                            ((i - 1) * a.array.shape_2d[1]) \div 4]))
               ELSE IF cf # PyNone
               THEN Value(RoundedTicks(a.min_value * cf.v, a.max_value * cf.v))
               ELSE Value(RoundedTicks(a.min_value, a.max_value))

(* C28: for the array and the ends of the axis of a call there is a         *)
(* combination of manual_values, use_scaled, conversion_factor and in_kpc,  *)
(* use_defaults being false, that is none of the manual, pixel, scaled and  *)
(* scaled-with-conversion cases and for which tick_values_in_units_from     *)
(* raises PlottingException instead of returning labels.                    *)
C28_SomeUnitsRaise ==
    TicksAsked =>
        \E manual_values \in TickLists, units \in UnitsObjects :
            tick_values_in_units_from(
                AbstractTicks_init("YTicks", TicksConfig, manual_values, FALSE, <<>>),
                pcall.args.array, pcall.args.min_value, pcall.args.max_value,
                units, FALSE) = Raise("PlottingException")


\* the three arrays of a dataset, by value
DatasetArrays(h, dataset) ==
    [f \in {"data", "noise_map", "uv_wavelengths"} |-> Held_by(h, dataset, f)]

\* from_image called once more on the image of the call made, by the
\* simulator as it is but for the exposure_time_map e
AgainWith(e) ==
    from_image(World([heap EXCEPT ![sim].fields.exposure_time_map = e], calls),
               sim, simcall.image, PyStr("name"),
               CHOOSE dr \in Draws(SimAttr("noise_seed").v,
                                   Len(heap[SimAttr("uv_wavelengths").ref].data)) : TRUE)

(* C30: the result of from_image does not depend on exposure_time_map. For  *)
(* a simulator with a fixed noise_seed (not -1), a simulator differing from *)
(* it in exposure_time_map only, given the same image, ends as it did:      *)
(* raising the same exception or returning a dataset of the same            *)
(* visibilities, noise map and uv_wavelengths; this holds for the           *)
(* exposure_time_map of the simulator itself, the call repeated. No call    *)
(* changes an attribute of the simulator or any object that existed.        *)
C30_ExposureTimeMapIsNotUsed ==
    /\ []((simcall # NoCall /\ SimAttr("noise_seed").v # 0 - 1) =>
             \A e \in ExposureTimeMaps :
                 LET r == AgainWith(e) IN
                 /\ r.out.kind = simcall.out.kind
                 /\ r.out.kind = "raise" => r.out = simcall.out
                 /\ r.out.kind = "return" =>
                        DatasetArrays(r.heap, r.out.obj)
                            = DatasetArrays(heap, simcall.out.obj)
                 /\ \A a \in DOMAIN heap :
                        a # sim => r.heap[a] = heap[a]
                 /\ r.heap[sim] = [heap[sim] EXCEPT !.fields.exposure_time_map = e])
    /\ [][sim # 0 => \A a \in DOMAIN heap : heap'[a] = heap[a]]_vars

\* noise was added under the seed 1 by a simulator holding an exposure
\* time, and the simulator without one returns the same arrays
C30_Witness ==
    /\ simcall # NoCall
    /\ simcall.out.kind = "return"
    /\ SimAttr("noise_seed").v = 1
    /\ SimAttr("noise_sigma") = PyFloat(2)
    /\ SimAttr("exposure_time_map") = PyFloat(300)
    /\ AgainWith(PyNone).out.kind = "return"
    /\ DatasetArrays(AgainWith(PyNone).heap, AgainWith(PyNone).out.obj)
           = DatasetArrays(heap, simcall.out.obj)

====
